---- MODULE Spec2Model ----
\* A model of the lang-parse expression-graph evaluator (parse.ts, lines 1-504)
\* and of the expression builders (types/expression.ts, lines 34-324).
\*
\* Strings are sequences of one-character strings.  Closures of the program
\* (stateUpdater, regexp/suggestion functions, dynamic generators) are records
\* naming which closure it is, applied by the operators below.
EXTENDS Integers, Sequences, FiniteSets, TLC

VARIABLES
  expression,     \* parse argument: the expression graph
  initialState,   \* parse argument: the caller's state
  input,          \* parse argument: the input string
  pc,             \* "ready" -> "parsed" -> "compared", "conditional", "repeated",
                  \* "built", "parsedAgain" or "reordered" (parse); "merge" -> "merged" -> "permuted" -> "again"
                  \* (dedupSuggestions)
  heap,           \* every ExpressionResult / LiteralResult created by the call
  result,         \* the ParseResult of parse(expression, initialState, input)
  optHeap,        \* heap of parse(optional(expression), initialState, input)
  optResult,      \* its ParseResult
  condIfFalse,    \* the ifFalse option of the conditional put before expression
  condHeap,       \* heap of parse(sequence(conditional(...), expression), ...)
  condResult,     \* its ParseResult
  repOptions,     \* the options of the repetition of expression
  repHeap,        \* heap of parse(repeated(expression, options), ...)
  repResult,      \* its ParseResult
  againResult,    \* the ParseResult of the same call of parse made a second time
  evaluationOrder,\* an order in which the branches at a fan-out can be evaluated
  reorderedResult,\* the ParseResult of the same call with the branches evaluated in that order
  builderCall,    \* a call of sequence(), union() or repeated() and its arguments
  built,          \* what the call returned: an expression, or the error it threw
  suggestionList, \* dedupSuggestions argument: the suggestions to merge
  deduped,        \* dedupSuggestions(suggestionList)
  permuted,       \* the same suggestions in another order
  dedupedPermuted,\* dedupSuggestions(permuted)
  dedupedAgain    \* dedupSuggestions(deduped)

\* the variables of the calls of dedupSuggestions
dedupVars == <<suggestionList, deduped, permuted, dedupedPermuted, dedupedAgain>>

\* the variables of the calls of parse
parseVars == <<expression, initialState, input, heap, result, optHeap, optResult,
               condIfFalse, condHeap, condResult, repOptions, repHeap, repResult,
               againResult, evaluationOrder, reorderedResult>>

\* the variables of the calls of the builders
buildVars == <<builderCall, built>>

vars == <<pc, parseVars, buildVars, dedupVars>>

\* ---------------------------------------------------------------- bounds

\* Longest input string explored.
MaxInputLen == 3

\* Deepest nesting of parseInternal calls before the stack is exhausted.
MaxStackDepth == 15

\* Longest list of suggestions merged.
MaxSuggestions == 3

\* Greatest number used as a suggestion label.
MaxLabelNumber == 1

Alphabet == {"a", "b", "c"}

RECURSIVE StringsUpTo(_)
StringsUpTo(n) ==
  IF n = 0 THEN {<<>>}
  ELSE LET shorter == StringsUpTo(n - 1)
       IN  shorter \cup {Append(s, ch) : s \in {t \in shorter : Len(t) = n - 1}, ch \in Alphabet}

Inputs == StringsUpTo(MaxInputLen)

\* ---------------------------------------------------------------- helpers

Max(a, b) == IF a >= b THEN a ELSE b

\* String.prototype.slice(from) / slice(0, to)
SliceFrom(s, from) == SubSeq(s, from + 1, Len(s))
SliceTo(s, to) == SubSeq(s, 1, to)

RECURSIVE Flatten(_)
Flatten(ss) == IF ss = <<>> THEN <<>> ELSE Head(ss) \o Flatten(Tail(ss))

RECURSIVE SelectSeqIdx(_, _)
\* the elements of a sequence whose flag is set, order kept (Array.filter)
SelectSeqIdx(s, keep) ==
  IF s = <<>> THEN <<>>
  ELSE (IF keep[1] THEN <<Head(s)>> ELSE <<>>) \o SelectSeqIdx(Tail(s), Tail(keep))

\* ---------------------------------------------------------------- regular expressions
\* A RegExp is [caret, group, alts]: its source is the alternation of alts,
\* enclosed in one capture group when group, preceded by ^ when caret.  An
\* alternate is [text, dollar]: literal text, followed by $ when dollar.

Alt(text) == [text |-> text, dollar |-> FALSE]
RegExp(alts) == [caret |-> FALSE, group |-> FALSE, alts |-> alts]
Re(text) == RegExp(<<Alt(text)>>)
ReGroup(text) == [caret |-> FALSE, group |-> TRUE, alts |-> <<Alt(text)>>]

\* regexp.source.startsWith("^")
SourceStartsWithCaret(regexp) == regexp.caret

\* new RegExp(`^${regexp.source}`): in an ungrouped alternation the ^ binds
\* to the first alternate only.
AltIsAnchored(regexp, i) == regexp.caret /\ (regexp.group \/ i = 1)

AltMatchesAt(regexp, i, text, p) ==
  LET alt == regexp.alts[i]
      n == Len(alt.text)
  IN  /\ AltIsAnchored(regexp, i) => p = 0
      /\ p + n <= Len(text)
      /\ SubSeq(text, p + 1, p + n) = alt.text
      /\ alt.dollar => p + n = Len(text)

\* RegExp.prototype.exec: the leftmost position at which some alternate
\* matches, and there the first alternate that does.
Exec(regexp, text) ==
  LET hits == {p \in 0..Len(text) : \E i \in 1..Len(regexp.alts) : AltMatchesAt(regexp, i, text, p)}
  IN  IF hits = {} THEN [found |-> FALSE]
      ELSE LET p == CHOOSE q \in hits : \A o \in hits : q <= o
               i == CHOOSE j \in 1..Len(regexp.alts) :
                      /\ AltMatchesAt(regexp, j, text, p)
                      /\ \A k \in 1..(j - 1) : ~AltMatchesAt(regexp, k, text, p)
               matched == regexp.alts[i].text
           IN  [found |-> TRUE, index |-> p, matchingPart |-> matched,
                matchGroups |-> IF regexp.group THEN <<matched>> ELSE <<>>]

\* ---------------------------------------------------------------- suggestions
\* A Suggestion is a bare string, [str |-> label], or a SuggestionObj, a
\* record with label and optionally priority and group.

Str(label) == [str |-> label]

\* suggestionAsObj: typeof suggestion === "string" ? { label: suggestion } : suggestion
suggestionAsObj(suggestion) ==
  IF "str" \in DOMAIN suggestion THEN [label |-> suggestion.str] ELSE suggestion

MapSuggestionAsObj(suggestions) ==
  [k \in 1..Len(suggestions) |-> suggestionAsObj(suggestions[k])]

\* ---------------------------------------------------------------- state and closures
\* The caller's state is the test suite's TestState: the list
\* matchingExpressions.  A stateUpdater is NO_OP, the test suite's
\* buildMatchRecorder(n), or an updater recording the length of the first
\* capture group.

INITIAL_STATE == <<>>

NO_OP == [kind |-> "noop"]

buildMatchRecorder(expressionNumber) == [kind |-> "record", n |-> expressionNumber]

recordGroup == [kind |-> "group"]

\* a faulty variant: the update is made twice
ApplyStateUpdaterTwice(stateUpdater, state, matchGroups) ==
  CASE stateUpdater.kind = "noop" -> state
    [] stateUpdater.kind = "record" -> Append(Append(state, stateUpdater.n), stateUpdater.n)
    [] stateUpdater.kind = "group" ->
         IF matchGroups = <<>> THEN state
         ELSE Append(Append(state, Len(matchGroups[1])), Len(matchGroups[1]))

\* expression.stateUpdater(draftState, matchGroups) under produce(): the
\* draft starts as a copy of state and the result is the finished draft.
ApplyStateUpdater(stateUpdater, state, matchGroups) ==
  CASE stateUpdater.kind = "noop" -> state
    [] stateUpdater.kind = "record" -> Append(state, stateUpdater.n)
    [] stateUpdater.kind = "group" ->
         IF matchGroups = <<>> THEN state ELSE Append(state, Len(matchGroups[1]))

\* state.matchingExpressions.includes(n)
Includes(state, n) == \E k \in 1..Len(state) : state[k] = n

\* A regexp given as a function of the state: one pattern while nothing
\* has been recorded, another afterwards.
RegExpFn(whenEmpty, otherwise) == [fn |-> "byState", whenEmpty |-> whenEmpty, otherwise |-> otherwise]

CallRegExpFn(f, state) == IF state = <<>> THEN f.whenEmpty ELSE f.otherwise

\* Suggestions are a static list, [static |-> list], or a function of the
\* state and of the full input, [fn |-> ...].
Static(list) == [static |-> list]

SuggestionsFn(whenEmptyInput, otherwise) ==
  [fn |-> "byInput", whenEmptyInput |-> whenEmptyInput, otherwise |-> otherwise]

CallSuggestionsFn(f, state, fullInput) ==
  IF fullInput = <<>> THEN f.whenEmptyInput ELSE f.otherwise

\* ---------------------------------------------------------------- expression builders

NoOptions == [none |-> TRUE]

ConfigError(message) == [type |-> "error", message |-> message]

IsConfigError(e) == e.type = "error"

literal(regexp, options) ==
  [type |-> "literal",
   regexp |-> regexp,
   suggestions |-> IF "suggestions" \in DOMAIN options THEN options.suggestions ELSE Static(<<>>),
   stateUpdater |-> IF "stateUpdater" \in DOMAIN options THEN options.stateUpdater ELSE NO_OP]

\* literal(/x/, {stateUpdater: buildMatchRecorder(n), suggestions: [label]})
Lit(text, n, label) ==
  literal(Re(text), [stateUpdater |-> buildMatchRecorder(n), suggestions |-> Static(<<Str(label)>>)])

\* /(?:)/
EMPTY_LITERAL == literal(Re(<<>>), NoOptions)

\* /$/
TERMINAL_LITERAL == literal(RegExp(<<[text |-> <<>>, dollar |-> TRUE]>>), NoOptions)

\* a faulty variant: no check of the number of children, the error is left to parse
sequenceUnchecked(children) ==
  IF Len(children) = 1 THEN children[1]
  ELSE [type |-> "sequence", sequence |-> children]

sequence(children) ==
  IF Len(children) = 0 THEN ConfigError("Sequence expression must have at least one child")
  ELSE IF Len(children) = 1 THEN children[1]
  ELSE [type |-> "sequence", sequence |-> children]

union(alternates) ==
  IF Len(alternates) = 0 THEN ConfigError("Union expression must have at least one child")
  ELSE IF Len(alternates) = 1 THEN alternates[1]
  ELSE [type |-> "union", alternates |-> alternates]

dynamic(fn) == [type |-> "dynamic", fn |-> fn]

\* a faulty variant: the alternate beside the expression is the literal that matches
\* the end of the input only
optionalWithTerminal(e) == union(<<TERMINAL_LITERAL, e>>)

optional(e) == union(<<EMPTY_LITERAL, e>>)

\* options: [condition, ifTrue] and optionally ifFalse, which is
\* [keyword |-> "matchEmpty"], [keyword |-> "notMatch"] or an expression.
conditional(options) == dynamic([kind |-> "conditional", options |-> options])

\* { ...expr, id: expr.id ?? id }
WithId(expr, id) == IF "id" \in DOMAIN expr THEN expr ELSE [id |-> id] @@ expr

_permutations(requiredMembers, optionalMembers, baseId, epoch) ==
  [id |-> baseId \o "[epoch-" \o ToString(epoch) \o "]"]
    @@ dynamic([kind |-> "permutations", requiredMembers |-> requiredMembers,
                optionalMembers |-> optionalMembers, baseId |-> baseId, epoch |-> epoch])

\* options: [requiredMembers, optionalMembers, id]
permutations(options) ==
  LET requiredMembers == IF "requiredMembers" \in DOMAIN options THEN options.requiredMembers ELSE <<>>
      optionalMembers == IF "optionalMembers" \in DOMAIN options THEN options.optionalMembers ELSE <<>>
      id == IF "id" \in DOMAIN options THEN options.id ELSE "uuid"
      required == [i \in 1..Len(requiredMembers) |->
                     WithId(requiredMembers[i], id \o ".required." \o ToString(i - 1))]
      optionalM == [i \in 1..Len(optionalMembers) |->
                     WithId(optionalMembers[i], id \o ".optional." \o ToString(i - 1))]
  IN  _permutations(required, optionalM, id, 1)

\* options.condition(state): the state includes a recorded number
ConditionIncludes(n) == [kind |-> "includes", n |-> n]

CallCondition(condition, state) == Includes(state, condition.n)

\* a faulty variant: an omitted ifFalse is taken as "notMatch"
ConditionalFnDefaultNotMatch(options, state) ==
  IF CallCondition(options.condition, state) THEN options.ifTrue
  ELSE IF "ifFalse" \notin DOMAIN options THEN TERMINAL_LITERAL
  ELSE IF "keyword" \in DOMAIN options.ifFalse
       THEN (IF options.ifFalse.keyword = "matchEmpty" THEN EMPTY_LITERAL ELSE TERMINAL_LITERAL)
  ELSE options.ifFalse

\* The generator of a conditional expression (the closure passed to dynamic)
ConditionalFn(options, state) ==
  IF CallCondition(options.condition, state) THEN options.ifTrue
  ELSE IF "ifFalse" \notin DOMAIN options THEN EMPTY_LITERAL
  ELSE IF "keyword" \in DOMAIN options.ifFalse
       THEN (IF options.ifFalse.keyword = "matchEmpty" THEN EMPTY_LITERAL ELSE TERMINAL_LITERAL)
  ELSE options.ifFalse

\* a faulty variant: the members already matched are not filtered out
RemainingMembersUnfiltered(members, matchedNodeIds) == members

\* requiredMembers.filter((expr) => !wasAlreadyMatched(expr.id))
RemainingMembers(members, matchedNodeIds) ==
  SelectSeqIdx(members, [k \in 1..Len(members) |-> members[k].id \notin matchedNodeIds])

\* The generator of a permutations epoch (the closure passed to dynamic)
PermutationsFn(fn, matchedNodeIds) ==
  LET remainingRequiredMembers == RemainingMembers(fn.requiredMembers, matchedNodeIds)
      remainingOptionalMembers == RemainingMembers(fn.optionalMembers, matchedNodeIds)
  IN  IF Len(remainingRequiredMembers) = 0 /\ Len(remainingOptionalMembers) = 0
      THEN EMPTY_LITERAL
      ELSE LET nextMatchExpr == union(remainingRequiredMembers \o remainingOptionalMembers)
               permutationsExp ==
                 sequence(<<nextMatchExpr,
                            _permutations(remainingRequiredMembers, remainingOptionalMembers,
                                          fn.baseId, fn.epoch + 1)>>)
           IN  IF Len(remainingRequiredMembers) # 0 THEN permutationsExp
               ELSE optional(permutationsExp)

\* The generator of the test suite's dynamic expression: one expression when
\* the state includes n, another otherwise.
ByStateFn(n, ifIncluded, otherwise) ==
  [kind |-> "byState", n |-> n, ifIncluded |-> ifIncluded, otherwise |-> otherwise]

\* A generator that asks wasAlreadyMatched(id).
ByMatchedFn(id, ifMatched, otherwise) ==
  [kind |-> "byMatched", id |-> id, ifMatched |-> ifMatched, otherwise |-> otherwise]

\* a faulty variant: the count of repetitions left is never decreased
NoDecrement(n) == n

\* Math.max(0, n - 1)
Decrement(n) == Max(0, n - 1)

\* options: [min, max], each optional; no max stands for max = Infinity,
\* which Math.max(0, max - 1) leaves as it is
repeated(expr, options) ==
  LET min == IF "min" \in DOMAIN options THEN options.min ELSE 0
      bounded == "max" \in DOMAIN options
  IN  IF min < 0 THEN ConfigError("Minimum number of repetitions must be non-negative")
      ELSE IF bounded /\ options.max < min
      THEN ConfigError("Maximum number of repetitions must be greater than the minimum")
      ELSE LET more == IF bounded
                       THEN [kind |-> "repeated", expression |-> expr,
                             min |-> min, max |-> options.max]
                       ELSE [kind |-> "repeated", expression |-> expr, min |-> min]
               nextExpr == IF bounded /\ options.max = 0 THEN TERMINAL_LITERAL
                           ELSE sequence(<<expr, dynamic(more)>>)
           IN  IF min = 0 THEN optional(nextExpr) ELSE nextExpr

\* The generator of the rest of a repeated expression (the closure passed
\* to dynamic): repeated(expression, {min: Math.max(0, min - 1),
\* max: Math.max(0, max - 1)})
RepeatedFn(fn) ==
  repeated(fn.expression,
           IF "max" \in DOMAIN fn
           THEN [min |-> Decrement(fn.min), max |-> Decrement(fn.max)]
           ELSE [min |-> Decrement(fn.min)])

\* expression.fn(state, wasAlreadyMatched), with wasAlreadyMatched(id) = id \in matchedNodeIds
CallFn(fn, state, matchedNodeIds) ==
  CASE fn.kind = "conditional" -> ConditionalFn(fn.options, state)
    [] fn.kind = "permutations" -> PermutationsFn(fn, matchedNodeIds)
    [] fn.kind = "byState" -> IF Includes(state, fn.n) THEN fn.ifIncluded ELSE fn.otherwise
    [] fn.kind = "byMatched" -> IF fn.id \in matchedNodeIds THEN fn.ifMatched ELSE fn.otherwise
    [] fn.kind = "repeated" -> RepeatedFn(fn)

\* ---------------------------------------------------------------- result model
\* The heap of one parse call, m:
\*   results  the ExpressionResult objects, in order of construction; one is
\*            [expression, nodeId, parent, isFinalized, branchResults, prior, depth]
\*            (parent: index into results, 0 = undefined; prior: the prev the
\*            node was evaluated against, kept for the properties only;
\*            depth: the calls of parseInternal in progress at its construction)
\*   lits     the LiteralResult objects, in order of construction; one is
\*            [container, prev, matchEnd, isMatch, state, suggestions]
\*            (container: index into results; prev: index into lits, 0 = undefined)
\*   gens     one entry per call of a dynamic expression's generator
\*   err      the message of the first error thrown, "" when none
\*   order    the order in which the calls of a map over branches are made:
\*            "forward" is that of Array.prototype.map, the order of parse

EmptyHeap == [results |-> <<>>, lits |-> <<>>, gens |-> <<>>, err |-> "", order |-> "forward"]

\* The positions 1..n of the branches at a fan-out, in the order in which
\* they are evaluated.  "forward" is the order of the source; the others are
\* the orders another scheduling of the branches could take.
EvaluationOrder(order, n) ==
  CASE order = "forward" -> [k \in 1..n |-> k]
    [] order = "reversed" -> [k \in 1..n |-> n + 1 - k]
    [] order = "rotated" -> [k \in 1..n |-> (k % n) + 1]
    [] order = "swapped" -> [k \in 1..n |-> IF n >= 2 /\ k <= 2 THEN 3 - k ELSE k]

\* the branches s in the order in which they are evaluated
InEvaluationOrder(m, s) ==
  LET o == EvaluationOrder(m.order, Len(s))
  IN  [k \in 1..Len(s) |-> s[o[k]]]

\* a faulty variant: the results stay in the order in which they were obtained
InCompletionOrder(m, s) == s

\* results obtained in evaluation order, put back in the order of the
\* branches (the order of the array that map returns)
InExplorationOrder(m, s) ==
  LET o == EvaluationOrder(m.order, Len(s))
  IN  [k \in 1..Len(s) |-> s[CHOOSE j \in 1..Len(s) : o[j] = k]]

Throw(m, message) == [m EXCEPT !.err = IF m.err = "" THEN message ELSE m.err]

\* new ExpressionResult(expression, nodeId, parent)
NewExpressionResult(m, expr, nodeId, parent, prior) ==
  [m EXCEPT !.results = Append(@, [expression |-> expr, nodeId |-> nodeId, parent |-> parent,
                                   isFinalized |-> FALSE, branchResults |-> <<>>,
                                   prior |-> prior,
                                   depth |-> IF parent = 0 THEN 1
                                             ELSE m.results[parent].depth + 1])]

NewLiteralResult(m, literalResult) == [m EXCEPT !.lits = Append(@, literalResult)]

\* ExpressionResult.finalize
finalize(m, r, branchResults) ==
  IF m.results[r].isFinalized THEN Throw(m, "Cannot finalize an already finalized result")
  ELSE [m EXCEPT !.results[r].isFinalized = TRUE, !.results[r].branchResults = branchResults]

\* ExpressionResult.isFinalized
isFinalized(m, r) == m.results[r].isFinalized

\* ExpressionResult.branchResults (the getter throws before finalize; the
\* callers below record the throw with ReadsUnfinalized)
branchResults(m, r) == m.results[r].branchResults

ReadsUnfinalized(m, r) ==
  IF m.results[r].isFinalized THEN m
  ELSE Throw(m, "Cannot access branch results before finalizing")

RECURSIVE ReduceMaxMatchEnd(_, _, _)
\* branchResults.reduce((greatest, result) => Math.max(greatest, result.matchEnd), greatest)
ReduceMaxMatchEnd(m, brs, greatest) ==
  IF brs = <<>> THEN greatest
  ELSE ReduceMaxMatchEnd(m, Tail(brs), Max(greatest, m.lits[Head(brs)].matchEnd))

\* ExpressionResult.isMatch
isMatch(m, r) == \E k \in 1..Len(branchResults(m, r)) : m.lits[branchResults(m, r)[k]].isMatch

\* a faulty variant: only the longest matching results are kept (a greedy sequence)
matchingBranchResultsLongestOnly(m, r) ==
  LET brs == branchResults(m, r)
      matching == SelectSeqIdx(brs, [k \in 1..Len(brs) |-> m.lits[brs[k]].isMatch])
      greatest == ReduceMaxMatchEnd(m, matching, 0)
  IN  SelectSeqIdx(matching, [k \in 1..Len(matching) |-> m.lits[matching[k]].matchEnd = greatest])

\* a faulty variant: a branch whose latest literal failed still counts as live
matchingBranchResultsAndFailed(m, r) == branchResults(m, r)

\* ExpressionResult.matchingBranchResults
matchingBranchResults(m, r) ==
  LET brs == branchResults(m, r)
  IN  SelectSeqIdx(brs, [k \in 1..Len(brs) |-> m.lits[brs[k]].isMatch])

\* a faulty variant: the failed results are dropped
nonMatchingBranchResultsDropped(m, r) == <<>>

\* ExpressionResult.nonMatchingBranchResults
nonMatchingBranchResults(m, r) ==
  LET brs == branchResults(m, r)
  IN  SelectSeqIdx(brs, [k \in 1..Len(brs) |-> ~m.lits[brs[k]].isMatch])

\* ExpressionResult.longestMatchResults
longestMatchResults(m, r) ==
  LET brs == branchResults(m, r)
      greatestMatchEnd == ReduceMaxMatchEnd(m, brs, 0)
  IN  SelectSeqIdx(brs, [k \in 1..Len(brs) |-> m.lits[brs[k]].matchEnd = greatestMatchEnd])

\* a faulty variant: the first of the longest results, matching or not
bestResultFirstLongest(m, r) ==
  LET longest == longestMatchResults(m, r)
  IN  IF longest # <<>> THEN longest[1] ELSE 0

\* ExpressionResult.bestResult: 0 stands for undefined (no longest result)
bestResult(m, r) ==
  LET longest == longestMatchResults(m, r)
      matching == SelectSeqIdx(longest, [k \in 1..Len(longest) |-> m.lits[longest[k]].isMatch])
  IN  IF matching # <<>> THEN matching[1]
      ELSE IF longest # <<>> THEN longest[1]
      ELSE 0

\* ---------------------------------------------------------------- suggestion merge

\* s.priority ?? 0
PriorityOf(s) == IF "priority" \in DOMAIN s THEN s.priority ELSE 0

HasGroup(s) == "group" \in DOMAIN s

\* s.group?.priority ?? 0
GroupPriorityOf(s) ==
  IF HasGroup(s) /\ "priority" \in DOMAIN s.group THEN s.group.priority ELSE 0

\* s1.group === s2.group: both undefined, or the same group object (a
\* group is [key, ref, priority]: ref tells the objects apart, and two
\* objects may carry the same key)
SameGroup(s1, s2) ==
  \/ ~HasGroup(s1) /\ ~HasGroup(s2)
  \/ HasGroup(s1) /\ HasGroup(s2) /\ s1.group.ref = s2.group.ref

compareSuggestionPriority(s1, s2) ==
  IF SameGroup(s1, s2) THEN PriorityOf(s1) - PriorityOf(s2)
  ELSE LET groupDiff == (IF HasGroup(s1) THEN 1 ELSE 0) - (IF HasGroup(s2) THEN 1 ELSE 0)
       IN  IF groupDiff # 0 THEN groupDiff
           ELSE GroupPriorityOf(s1) - GroupPriorityOf(s2)

\* a property key that is an array index: the canonical decimal form of a number
IsArrayIndex(key) == \E n \in 0..MaxLabelNumber : ToString(n) = key

\* Object.values(record), entries being the values of the record in the
\* order in which their keys were inserted: the values under array-index
\* keys come first, in ascending numeric order, then the others in
\* insertion order
ObjectValues(entries) ==
  Flatten([n \in 1..(MaxLabelNumber + 1) |->
             SelectSeqIdx(entries, [k \in 1..Len(entries) |->
                                      entries[k].label = ToString(n - 1)])])
    \o SelectSeqIdx(entries, [k \in 1..Len(entries) |-> ~IsArrayIndex(entries[k].label)])

RECURSIVE DedupLoopKeepsFirst(_, _)
\* a faulty variant: the first suggestion of a label is kept, whatever follows
DedupLoopKeepsFirst(suggestions, entries) ==
  IF suggestions = <<>> THEN entries
  ELSE LET suggestionObj == suggestionAsObj(Head(suggestions))
       IN  IF \E k \in 1..Len(entries) : entries[k].label = suggestionObj.label
           THEN DedupLoopKeepsFirst(Tail(suggestions), entries)
           ELSE DedupLoopKeepsFirst(Tail(suggestions), Append(entries, suggestionObj))

RECURSIVE DedupLoop(_, _)
\* the loop of dedupSuggestions; entries lists the values of the record
\* dedupedSuggestions in the order in which their keys were inserted
DedupLoop(suggestions, entries) ==
  IF suggestions = <<>> THEN entries
  ELSE LET suggestionObj == suggestionAsObj(Head(suggestions))
           key == suggestionObj.label
           at == {k \in 1..Len(entries) : entries[k].label = key}
       IN  IF at = {} THEN DedupLoop(Tail(suggestions), Append(entries, suggestionObj))
           ELSE LET k == CHOOSE j \in at : TRUE
                IN  IF compareSuggestionPriority(suggestionObj, entries[k]) > 0
                    THEN DedupLoop(Tail(suggestions), [entries EXCEPT ![k] = suggestionObj])
                    ELSE DedupLoop(Tail(suggestions), entries)

dedupSuggestions(suggestions) == ObjectValues(DedupLoop(suggestions, <<>>))

\* a faulty variant: the suggestions of the best result only
suggestionsOfBestOnly(m, r) ==
  IF bestResult(m, r) = 0 THEN <<>> ELSE dedupSuggestions(m.lits[bestResult(m, r)].suggestions)

\* ExpressionResult.suggestions
suggestions(m, r) ==
  LET longest == longestMatchResults(m, r)
  IN  dedupSuggestions(Flatten([k \in 1..Len(longest) |-> m.lits[longest[k]].suggestions]))

\* ---------------------------------------------------------------- matched-node tracking

RECURSIVE ClimbParents(_, _, _)
\* the inner while loop of getAllMatchedNodeIds, from expressionResult upward
ClimbParents(m, expressionResult, matchedNodeIds) ==
  IF expressionResult = 0 \/ ~isFinalized(m, expressionResult) THEN matchedNodeIds
  ELSE LET nodeId == m.results[expressionResult].nodeId
       IN  IF nodeId \in matchedNodeIds THEN matchedNodeIds
           ELSE ClimbParents(m, m.results[expressionResult].parent,
                             IF isMatch(m, expressionResult)
                             THEN matchedNodeIds \cup {nodeId} ELSE matchedNodeIds)

RECURSIVE WalkChain(_, _, _)
\* the outer while loop of getAllMatchedNodeIds, from currentLiteralResult
\* backwards.  (Where the container's id is in matchedNodeIds already,
\* add() and the inner loop, which breaks at once, leave the set as it is.)
WalkChain(m, currentLiteralResult, matchedNodeIds) ==
  IF currentLiteralResult = 0 THEN matchedNodeIds
  ELSE LET lr == m.lits[currentLiteralResult]
       IN  IF ~lr.isMatch \/ m.results[lr.container].nodeId \in matchedNodeIds
           THEN WalkChain(m, lr.prev, matchedNodeIds)
           ELSE WalkChain(m, lr.prev,
                          ClimbParents(m, lr.container,
                                       matchedNodeIds \cup {m.results[lr.container].nodeId}))

\* a faulty variant: every literal that matched anywhere in the call is
\* reported, on whatever branch
getAllMatchedNodeIdsAnyBranch(m, latestLiteralResult) ==
  {m.results[m.lits[k].container].nodeId : k \in {j \in 1..Len(m.lits) : m.lits[j].isMatch}}

getAllMatchedNodeIds(m, latestLiteralResult) == WalkChain(m, latestLiteralResult, {})

\* ---------------------------------------------------------------- the evaluator
\* Every parseX returns [m, res, threw]: the heap after the call, the index
\* of its ExpressionResult, and whether the call ended by throwing (the
\* error is m.err, and the caller ends with it in its turn).

\* a call that returns
Returns(m, res) == [m |-> m, res |-> res, threw |-> m.err # ""]

\* a call that throws
Throws(m, res) == [m |-> m, res |-> res, threw |-> TRUE]

\* the id of the root expression's node and of the no-op start node (the
\* source uses two non-ASCII symbols)
RootNodeId == "(root)"
NoopNodeId == "(noop)"

RECURSIVE parseInternal(_, _, _, _, _, _)

\* a faulty variant: matchEnd is the length of the matched text, the prior's offset forgotten
LiteralMatchNoOffset(expr, prev, res, match, m) ==
  LET state == m.lits[prev].state
      updatedState == ApplyStateUpdater(expr.stateUpdater, state, match.matchGroups)
      literalResult == [container |-> res,
                        matchEnd |-> Len(match.matchingPart),
                        isMatch |-> TRUE,
                        state |-> updatedState,
                        suggestions |-> <<>>,
                        prev |-> prev]
      m1 == NewLiteralResult(m, literalResult)
  IN  Returns(finalize(m1, res, <<Len(m1.lits)>>), res)

\* a faulty variant: the stateUpdater runs on the prior's state itself, not on a draft
LiteralMatchMutatesPrior(expr, prev, res, match, m) ==
  LET state == m.lits[prev].state
      prevMatchEnd == m.lits[prev].matchEnd
      updatedState == ApplyStateUpdater(expr.stateUpdater, state, match.matchGroups)
      literalResult == [container |-> res,
                        matchEnd |-> Len(match.matchingPart) + prevMatchEnd,
                        isMatch |-> TRUE,
                        state |-> updatedState,
                        suggestions |-> <<>>,
                        prev |-> prev]
      m1 == NewLiteralResult([m EXCEPT !.lits[prev].state = updatedState], literalResult)
  IN  Returns(finalize(m1, res, <<Len(m1.lits)>>), res)

\* a faulty variant: a match of the empty string counts as no match
LiteralMatchNeedsText(expr, prev, res, match, m) ==
  LET state == m.lits[prev].state
      prevMatchEnd == m.lits[prev].matchEnd
      matched == match.matchingPart # <<>>
      updatedState == ApplyStateUpdater(expr.stateUpdater, state, match.matchGroups)
      literalResult == [container |-> res,
                        matchEnd |-> Len(match.matchingPart) + prevMatchEnd,
                        isMatch |-> matched,
                        state |-> IF matched THEN updatedState ELSE state,
                        suggestions |-> IF matched \/ "fn" \in DOMAIN expr.suggestions THEN <<>>
                                        ELSE MapSuggestionAsObj(expr.suggestions.static),
                        prev |-> prev]
      m1 == NewLiteralResult(m, literalResult)
  IN  Returns(finalize(m1, res, <<Len(m1.lits)>>), res)

\* parseLiteral, the match case: the LiteralResult built from match
LiteralMatch(expr, prev, res, match, m) ==
  LET state == m.lits[prev].state
      prevMatchEnd == m.lits[prev].matchEnd
      updatedState == ApplyStateUpdater(expr.stateUpdater, state, match.matchGroups)
      literalResult == [container |-> res,
                        matchEnd |-> Len(match.matchingPart) + prevMatchEnd,
                        isMatch |-> TRUE,
                        state |-> updatedState,
                        suggestions |-> <<>>,
                        prev |-> prev]
      m1 == NewLiteralResult(m, literalResult)
  IN  Returns(finalize(m1, res, <<Len(m1.lits)>>), res)

\* a faulty variant: the stateUpdater runs although the literal did not match
LiteralNoMatchUpdatesState(expr, prev, inputStr, res, m) ==
  LET state == m.lits[prev].state
      suggs == IF "fn" \in DOMAIN expr.suggestions
               THEN CallSuggestionsFn(expr.suggestions, state, inputStr)
               ELSE expr.suggestions.static
      literalResult == [container |-> res,
                        matchEnd |-> m.lits[prev].matchEnd,
                        isMatch |-> FALSE,
                        state |-> ApplyStateUpdater(expr.stateUpdater, state, <<>>),
                        prev |-> prev,
                        suggestions |-> MapSuggestionAsObj(suggs)]
      m1 == NewLiteralResult(m, literalResult)
  IN  Returns(finalize(m1, res, <<Len(m1.lits)>>), res)

\* parseLiteral, the non-match case
LiteralNoMatch(expr, prev, inputStr, res, m) ==
  LET state == m.lits[prev].state
      suggs == IF "fn" \in DOMAIN expr.suggestions
               THEN CallSuggestionsFn(expr.suggestions, state, inputStr)
               ELSE expr.suggestions.static
      literalResult == [container |-> res,
                        matchEnd |-> m.lits[prev].matchEnd,
                        isMatch |-> FALSE,
                        state |-> state,
                        prev |-> prev,
                        suggestions |-> MapSuggestionAsObj(suggs)]
      m1 == NewLiteralResult(m, literalResult)
  IN  Returns(finalize(m1, res, <<Len(m1.lits)>>), res)

parseLiteral(expr, prev, inputStr, res, m) ==
  LET state == m.lits[prev].state
      prevMatchEnd == m.lits[prev].matchEnd
      regexp == IF "fn" \in DOMAIN expr.regexp THEN CallRegExpFn(expr.regexp, state)
                ELSE expr.regexp
      finalRegexp == IF SourceStartsWithCaret(regexp) THEN regexp
                     ELSE [regexp EXCEPT !.caret = TRUE]
      expressionInput == IF prevMatchEnd # 0 THEN SliceFrom(inputStr, prevMatchEnd) ELSE inputStr
      match == Exec(finalRegexp, expressionInput)
  IN  IF match.found THEN LiteralMatch(expr, prev, res, match, m)
      ELSE LiteralNoMatch(expr, prev, inputStr, res, m)

RECURSIVE MapLiveBranches(_, _, _, _, _, _, _)
\* liveBranchResults.map((branchResult) => parseInternal(childExpression,
\* branchResult, result, i, input)): returns [m, childResults, threw]; an
\* error thrown by a call ends the map
MapLiveBranches(childExpression, live, res, i, inputStr, m, childResults) ==
  LET child == parseInternal(childExpression, Head(live), res, i, inputStr, m)
  IN  CASE live = <<>> -> [m |-> m, childResults |-> childResults, threw |-> FALSE]
        [] child.threw ->
             [m |-> child.m, childResults |-> Append(childResults, child.res), threw |-> TRUE]
        [] OTHER -> MapLiveBranches(childExpression, Tail(live), res, i, inputStr, child.m,
                                    Append(childResults, child.res))

\* The loops below are written over the number of iterations made: the
\* value for n is the state after the first n iterations, a record
\* [m, res, threw, ...] that is the value of the whole call once stopped.

\* a faulty variant: a child that matches on no live branch is passed over
\* and the next child starts from the same branches
RECURSIVE SequenceLoopSkipsFailed(_, _, _, _, _, _)
SequenceLoopSkipsFailed(expr, n, prev, inputStr, res, m) ==
  LET before == SequenceLoopSkipsFailed(expr, n - 1, prev, inputStr, res, m)
      childExpression == expr.sequence[n]
      mapped == MapLiveBranches(childExpression, InEvaluationOrder(before.m, before.live),
                                res, n - 1, inputStr, before.m, <<>>)
      childResults == InExplorationOrder(mapped.m, mapped.childResults)
      live == Flatten([k \in 1..Len(childResults) |->
                         matchingBranchResults(mapped.m, childResults[k])])
      dead == before.dead \o
              Flatten([k \in 1..Len(childResults) |->
                         nonMatchingBranchResults(mapped.m, childResults[k])])
      kept == IF Len(live) = 0 THEN before.live ELSE live
  IN  CASE n = 0 /\ Len(expr.sequence) = 0 ->
             [m |-> Throw(m, "Sequence expression must have at least one child"),
              res |-> res, threw |-> TRUE, stopped |-> TRUE]
        [] n = 0 ->
             [m |-> m, res |-> res, threw |-> FALSE, stopped |-> FALSE,
              live |-> <<prev>>, dead |-> <<>>]
        [] before.stopped -> before
        [] mapped.threw -> [m |-> mapped.m, res |-> res, threw |-> TRUE, stopped |-> TRUE]
        [] n = Len(expr.sequence) ->
             [m |-> finalize(mapped.m, res, kept \o dead), res |-> res,
              threw |-> FALSE, stopped |-> TRUE]
        [] OTHER ->
             [m |-> mapped.m, res |-> res, threw |-> FALSE, stopped |-> FALSE,
              live |-> kept, dead |-> dead]

\* the for loop of parseSequence after n iterations (children 0 .. n-1),
\* with the check that precedes it and the
\* result.finalize([...liveBranchResults, ...deadBranchResults]) that
\* follows it; the loop stops when no live branch is left, and an error
\* thrown by a call ends it
RECURSIVE SequenceLoop(_, _, _, _, _, _)
SequenceLoop(expr, n, prev, inputStr, res, m) ==
  LET before == SequenceLoop(expr, n - 1, prev, inputStr, res, m)
      childExpression == expr.sequence[n]
      mapped == MapLiveBranches(childExpression, InEvaluationOrder(before.m, before.live),
                                res, n - 1, inputStr, before.m, <<>>)
      childResults == InExplorationOrder(mapped.m, mapped.childResults)
      live == Flatten([k \in 1..Len(childResults) |->
                         matchingBranchResults(mapped.m, childResults[k])])
      dead == before.dead \o
              Flatten([k \in 1..Len(childResults) |->
                         nonMatchingBranchResults(mapped.m, childResults[k])])
  IN  CASE n = 0 /\ Len(expr.sequence) = 0 ->
             [m |-> Throw(m, "Sequence expression must have at least one child"),
              res |-> res, threw |-> TRUE, stopped |-> TRUE]
        [] n = 0 ->
             [m |-> m, res |-> res, threw |-> FALSE, stopped |-> FALSE,
              live |-> <<prev>>, dead |-> <<>>]
        [] before.stopped -> before
        [] mapped.threw -> [m |-> mapped.m, res |-> res, threw |-> TRUE, stopped |-> TRUE]
        [] n = Len(expr.sequence) \/ Len(live) = 0 ->
             [m |-> finalize(mapped.m, res, live \o dead), res |-> res,
              threw |-> FALSE, stopped |-> TRUE]
        [] OTHER ->
             [m |-> mapped.m, res |-> res, threw |-> FALSE, stopped |-> FALSE,
              live |-> live, dead |-> dead]

parseSequence(expr, prev, inputStr, res, m) ==
  SequenceLoop(expr, Len(expr.sequence), prev, inputStr, res, m)

\* a faulty variant: an alternate is evaluated against what the alternate before it
\* matched, not against the prior of the union
RECURSIVE MapAlternatesChained(_, _, _, _, _, _)
MapAlternatesChained(alternates, n, prev, res, inputStr, m) ==
  LET before == MapAlternatesChained(alternates, n - 1, prev, res, inputStr, m)
      earlier == IF n = 1 THEN <<>>
                 ELSE matchingBranchResults(before.m, before.childResults[n - 1])
      from == IF earlier = <<>> THEN prev ELSE earlier[1]
      child == parseInternal(alternates[n], from, res, n - 1, inputStr, before.m)
      childResults == Append(before.childResults, child.res)
  IN  CASE n = 0 /\ Len(alternates) = 0 ->
             Throws(Throw(m, "Union expression must have at least one child"), res)
        [] n = 0 -> [m |-> m, res |-> res, threw |-> FALSE, childResults |-> <<>>]
        [] before.threw -> before
        [] child.threw -> Throws(child.m, res)
        [] n = Len(alternates) ->
             Returns(finalize(child.m, res,
                              Flatten([k \in 1..Len(childResults) |->
                                         branchResults(child.m, childResults[k])])),
                     res)
        [] OTHER -> [m |-> child.m, res |-> res, threw |-> FALSE, childResults |-> childResults]

\* expression.alternates.map((alternate, i) => parseInternal(alternate,
\* prev, result, i, input)) after n calls (alternates 0 .. n-1 in the order
\* of the source; the n-th call is for alternate at - 1), with the
\* check that precedes it and the
\* result.finalize(childResults.flatMap(...branchResults)) that follows
\* it; an error thrown by a call ends the map
RECURSIVE MapAlternates(_, _, _, _, _, _)
MapAlternates(alternates, n, prev, res, inputStr, m) ==
  LET before == MapAlternates(alternates, n - 1, prev, res, inputStr, m)
      at == EvaluationOrder(m.order, Len(alternates))[n]
      child == parseInternal(alternates[at], prev, res, at - 1, inputStr, before.m)
      childResults == Append(before.childResults, child.res)
  IN  CASE n = 0 /\ Len(alternates) = 0 ->
             Throws(Throw(m, "Union expression must have at least one child"), res)
        [] n = 0 -> [m |-> m, res |-> res, threw |-> FALSE, childResults |-> <<>>]
        [] before.threw -> before
        [] child.threw -> Throws(child.m, res)
        [] n = Len(alternates) ->
             Returns(finalize(child.m, res,
                              Flatten(InExplorationOrder(child.m,
                                        [k \in 1..Len(childResults) |->
                                           branchResults(child.m, childResults[k])]))),
                     res)
        [] OTHER -> [m |-> child.m, res |-> res, threw |-> FALSE, childResults |-> childResults]

parseUnion(expr, prev, inputStr, res, m) ==
  MapAlternates(expr.alternates, Len(expr.alternates), prev, res, inputStr, m)

\* a faulty variant: the expression generated for a node is kept and reused for the
\* branches that reach the node later
GenerateExpressionCached(expr, prev, res, m) ==
  LET earlierCalls ==
        SelectSeqIdx(m.gens, [g \in 1..Len(m.gens) |->
                                m.results[m.gens[g].node].nodeId = m.results[res].nodeId])
  IN  IF earlierCalls # <<>> THEN earlierCalls[1].generated
      ELSE CallFn(expr.fn, m.lits[prev].state, getAllMatchedNodeIds(m, prev))

\* expression.fn(castImmutable(prev.state), wasAlreadyMatched)
GenerateExpression(expr, prev, res, m) ==
  CallFn(expr.fn, m.lits[prev].state, getAllMatchedNodeIds(m, prev))

parseDynamic(expr, prev, inputStr, res, m) ==
  LET generatedExpression == GenerateExpression(expr, prev, res, m)
      m1 == [m EXCEPT !.gens = Append(@, [node |-> res, prior |-> prev,
                                          state |-> m.lits[prev].state,
                                          matched |-> getAllMatchedNodeIds(m, prev),
                                          generated |-> generatedExpression])]
      childResult == parseInternal(generatedExpression, prev, res, 0, inputStr, m1)
  IN  IF childResult.threw THEN Throws(childResult.m, res)
      ELSE Returns(finalize(ReadsUnfinalized(childResult.m, childResult.res), res,
                            branchResults(childResult.m, childResult.res)),
                   res)

\* the calls of parseInternal in progress: one for each enclosing result
StackDepth(m, r) == IF r = 0 THEN 0 ELSE m.results[r].depth

\* the recursion of the evaluator beyond the depth the stack allows:
\* the engine throws a RangeError and the call of parse ends with it
StackOverflow(expr, prev, parent, m) ==
  LET m1 == NewExpressionResult(m, expr, "(overflow)", parent, prev)
  IN  Throws(Throw(m1, "RangeError: Maximum call stack size exceeded"), Len(m1.results))

parseInternal(expr, prev, parent, ordinal, inputStr, m) ==
  LET nodeId == IF "id" \in DOMAIN expr THEN expr.id
                ELSE IF parent # 0 THEN m.results[parent].nodeId \o "." \o ToString(ordinal)
                ELSE RootNodeId
      m1 == NewExpressionResult(m, expr, nodeId, parent, prev)
      res == Len(m1.results)
  IN  CASE StackDepth(m, parent) >= MaxStackDepth -> StackOverflow(expr, prev, parent, m)
        [] expr.type = "literal" -> parseLiteral(expr, prev, inputStr, res, m1)
        [] expr.type = "sequence" -> parseSequence(expr, prev, inputStr, res, m1)
        [] expr.type = "union" -> parseUnion(expr, prev, inputStr, res, m1)
        [] expr.type = "dynamic" -> parseDynamic(expr, prev, inputStr, res, m1)

\* literal(/()/): the dummy expression of the start node
DummyExpression == literal(ReGroup(<<>>), NoOptions)

noopExpressionResult(state) ==
  LET m1 == NewExpressionResult(EmptyHeap, DummyExpression, NoopNodeId, 0, 0)
      startingLiteralResult == [container |-> 1, matchEnd |-> 0, isMatch |-> TRUE,
                                state |-> state, suggestions |-> <<>>, prev |-> 0]
      m2 == NewLiteralResult(m1, startingLiteralResult)
  IN  Returns(finalize(m2, 1, <<1>>), 1)

\* the end of parse, from the result of parseInternal on: result.bestResult
\* and the ParseResult returned.  The value is [m, root, value]; value is
\* the ParseResult, or [thrown |-> message] when the call throws
ParseResultOf(inputStr, evaluated) ==
  LET m == ReadsUnfinalized(evaluated.m, evaluated.res)
      best == bestResult(m, evaluated.res)
  IN  [m |-> m, root |-> evaluated.res,
       value |-> IF m.err # "" THEN [thrown |-> m.err]
                 ELSE IF best = 0 THEN [thrown |-> "TypeError: best is undefined"]
                 ELSE [matchingPart |-> SliceTo(inputStr, m.lits[best].matchEnd),
                       remainder |-> SliceFrom(inputStr, m.lits[best].matchEnd),
                       state |-> m.lits[best].state,
                       suggestions |-> suggestions(m, evaluated.res)]]

\* parse with the branches at every fan-out evaluated in another order
parseInOrder(expr, state, inputStr, order) ==
  LET startResult == noopExpressionResult(state)
      m == [startResult.m EXCEPT !.order = order]
  IN  ParseResultOf(inputStr,
                    parseInternal(expr, bestResult(m, startResult.res),
                                  m.results[startResult.res].parent, 0, inputStr, m))

parse(expr, state, inputStr) ==
  LET startResult == noopExpressionResult(state)
  IN  ParseResultOf(inputStr,
                    parseInternal(expr, bestResult(startResult.m, startResult.res),
                                  startResult.m.results[startResult.res].parent, 0, inputStr,
                                  startResult.m))

\* ---------------------------------------------------------------- grammars
\* The expression graphs explored: the test suite's grammars over a
\* three-letter alphabet, and variations of them.

a == <<"a">>
b == <<"b">>
c == <<"c">>
ab == <<"a", "b">>

\* /a|b/: an alternation that is not enclosed in a group
AorB ==
  literal(RegExp(<<Alt(a), Alt(b)>>),
          [stateUpdater |-> buildMatchRecorder(0), suggestions |-> Static(<<Str("a"), Str("b")>>)])

\* a literal that matches the empty string, with a stateUpdater and suggestions
EmptyMatcher ==
  literal(Re(<<>>), [stateUpdater |-> buildMatchRecorder(0), suggestions |-> Static(<<Str("e")>>)])

\* a literal whose regexp and suggestions are functions
FnLiteral ==
  literal(RegExpFn(ReGroup(b), ReGroup(c)),
          [stateUpdater |-> recordGroup,
           suggestions |-> SuggestionsFn(<<Str("any")>>, <<Str("b"), [label |-> "c", priority |-> 1]>>)])

\* /(b|)/, like the test suite's /(boop)?/: matches b when the input goes on
\* with b and the empty string otherwise; suggestions are configured
MaybeB ==
  literal([caret |-> FALSE, group |-> TRUE, alts |-> <<Alt(b), Alt(<<>>)>>],
          [stateUpdater |-> buildMatchRecorder(1), suggestions |-> Static(<<Str("b")>>)])

\* the test suite's dynamic expression
StateSwitch == dynamic(ByStateFn(0, Lit(b, 1, "b"), Lit(c, 2, "c")))

Grammars ==
  << Lit(a, 0, "a"),
     sequence(<<Lit(a, 0, "a"), Lit(b, 1, "b")>>),
     union(<<Lit(a, 0, "a"), Lit(ab, 1, "ab")>>),
     sequence(<<union(<<Lit(ab, 0, "ab"), Lit(a, 1, "a")>>), Lit(b, 2, "b"), Lit(c, 3, "c")>>),
     EmptyMatcher,
     sequence(<<optional(Lit(a, 0, "a")), Lit(b, 1, "b")>>),
     sequence(<<optional(Lit(a, 0, "a")), StateSwitch>>),
     sequence(<<optional(Lit(a, 0, "a")),
                conditional([condition |-> ConditionIncludes(0), ifTrue |-> Lit(b, 1, "b")]),
                Lit(c, 2, "c")>>),
     sequence(<<optional(Lit(a, 0, "a")), FnLiteral>>),
     union(<<sequence(<<Lit(a, 0, "a"), Lit(b, 1, "b")>>), Lit(a, 2, "b"), EmptyMatcher>>),
     union(<<Lit(a, 0, "a"), sequence(<<Lit(ab, 1, "ab"), Lit(c, 2, "c")>>)>>),
     sequence(<<union(<<Lit(a, 0, "a"), Lit(a, 1, "a")>>), StateSwitch>>),
     sequence(<<AorB, Lit(c, 1, "c")>>),
     sequence(<<WithId(sequence(<<Lit(a, 0, "a"), Lit(b, 1, "b")>>), "s"),
                dynamic(ByMatchedFn("s", Lit(c, 2, "c"), Lit(a, 3, "a")))>>),
     sequence(<<union(<<WithId(Lit(a, 0, "a"), "x"), WithId(Lit(ab, 1, "ab"), "y"),
                        WithId(Lit(c, 2, "c"), "z")>>),
                dynamic(ByMatchedFn("x", Lit(b, 3, "b"), Lit(c, 4, "c")))>>),
     permutations([requiredMembers |-> <<Lit(a, 0, "a")>>,
                   optionalMembers |-> <<Lit(b, 1, "b")>>, id |-> "p"]),
     sequence(<<permutations([optionalMembers |-> <<Lit(a, 0, "a"), Lit(b, 1, "b")>>, id |-> "p"]),
                Lit(c, 2, "c")>>),
     sequence(<<permutations([requiredMembers |-> <<Lit(a, 0, "a"), Lit(b, 1, "b")>>, id |-> "p"]),
                Lit(c, 3, "c")>>),
     sequence(<<permutations([requiredMembers |-> <<Lit(a, 0, "a")>>,
                              optionalMembers |-> <<Lit(b, 1, "b")>>, id |-> "p"]),
                Lit(c, 3, "c")>>),
     permutations([requiredMembers |-> <<Lit(a, 0, "a"), Lit(b, 1, "b"), Lit(c, 2, "c")>>,
                   id |-> "p"]),
     permutations([requiredMembers |-> <<Lit(ab, 0, "ab"), Lit(c, 1, "c"), Lit(b, 2, "b")>>,
                   id |-> "q"]),
     permutations([requiredMembers |-> <<union(<<Lit(a, 0, "a"), Lit(b, 1, "b")>>)>>,
                   optionalMembers |-> <<Lit(c, 2, "c")>>, id |-> "p"]),
     permutations([requiredMembers |-> <<sequence(<<Lit(a, 0, "a"), Lit(b, 1, "b")>>)>>,
                   id |-> "p"]),
     sequence(<<Lit(a, 0, "a"), MaybeB, Lit(c, 2, "c"), EmptyMatcher>>)
  >>

InitialStates == {INITIAL_STATE, <<9>>}

\* ---------------------------------------------------------------- the calls

NoResult == [none |-> TRUE]

NoCall == [builder |-> "none"]

Init ==
  /\ \E g \in 1..Len(Grammars) : expression = Grammars[g]
  /\ initialState \in InitialStates
  /\ input \in Inputs
  /\ pc = "ready"
  /\ heap = EmptyHeap
  /\ result = NoResult
  /\ optHeap = EmptyHeap
  /\ optResult = NoResult
  /\ condIfFalse = "none"
  /\ condHeap = EmptyHeap
  /\ condResult = NoResult
  /\ repOptions = NoOptions
  /\ repHeap = EmptyHeap
  /\ repResult = NoResult
  /\ againResult = NoResult
  /\ evaluationOrder = "forward"
  /\ reorderedResult = NoResult
  /\ builderCall = NoCall
  /\ built = NoResult
  /\ suggestionList = <<>>
  /\ deduped = <<>>
  /\ permuted = <<>>
  /\ dedupedPermuted = <<>>
  /\ dedupedAgain = <<>>

\* the caller calls parse(expression, initialState, input)
Parse ==
  /\ pc = "ready"
  /\ LET call == parse(expression, initialState, input)
     IN  /\ heap' = call.m
         /\ result' = [root |-> call.root, value |-> call.value]
  /\ pc' = "parsed"
  /\ UNCHANGED <<expression, initialState, input, optHeap, optResult,
                 condIfFalse, condHeap, condResult, repOptions, repHeap, repResult,
                 againResult, evaluationOrder, reorderedResult>>
  /\ UNCHANGED buildVars
  /\ UNCHANGED dedupVars

\* the caller calls parse(optional(expression), initialState, input)
ParseOptional ==
  /\ pc = "parsed"
  /\ LET call == parse(optional(expression), initialState, input)
     IN  /\ optHeap' = call.m
         /\ optResult' = [root |-> call.root, value |-> call.value]
  /\ pc' = "compared"
  /\ UNCHANGED <<expression, initialState, input, heap, result,
                 condIfFalse, condHeap, condResult, repOptions, repHeap, repResult,
                 againResult, evaluationOrder, reorderedResult>>
  /\ UNCHANGED buildVars
  /\ UNCHANGED dedupVars

\* the condition of the conditional tests, on a number an initial state holds
StateCondition == ConditionIncludes(9)

\* the ifTrue expression of the conditional put before expression
IfTrueExpression == Lit(c, 5, "t")

\* the ifFalse options: left out, "matchEmpty" or "notMatch"
IfFalseOptions == {"omitted", "matchEmpty", "notMatch"}

ConditionalOptions(ifFalse) ==
  IF ifFalse = "omitted" THEN [condition |-> StateCondition, ifTrue |-> IfTrueExpression]
  ELSE [condition |-> StateCondition, ifTrue |-> IfTrueExpression,
        ifFalse |-> [keyword |-> ifFalse]]

\* the caller calls parse(sequence(conditional({condition, ifTrue, ifFalse}),
\* expression), initialState, input)
ParseConditional ==
  /\ pc = "parsed"
  /\ \E ifFalse \in IfFalseOptions :
       LET call == parse(sequence(<<conditional(ConditionalOptions(ifFalse)), expression>>),
                         initialState, input)
       IN  /\ condIfFalse' = ifFalse
           /\ condHeap' = call.m
           /\ condResult' = [root |-> call.root, value |-> call.value]
  /\ pc' = "conditional"
  /\ UNCHANGED <<expression, initialState, input, heap, result, optHeap, optResult,
                 repOptions, repHeap, repResult, againResult,
                 evaluationOrder, reorderedResult>>
  /\ UNCHANGED buildVars
  /\ UNCHANGED dedupVars

\* the options of repeated: none (no minimum, no maximum), a maximum alone,
\* and a minimum with a maximum
RepeatedOptions == {NoOptions, [max |-> 2], [min |-> 1, max |-> 2], [min |-> 2, max |-> 3]}

\* the expressions whose repetition is parsed: a literal, a literal that
\* matches the empty string, a union and a sequence of literals
Repeatable ==
  { Lit(a, 0, "a"),
    EmptyMatcher,
    union(<<Lit(a, 0, "a"), Lit(ab, 1, "ab")>>),
    sequence(<<Lit(a, 0, "a"), Lit(b, 1, "b")>>) }

\* the caller calls parse(repeated(expression, options), initialState, input)
ParseRepeated ==
  /\ pc = "parsed"
  /\ expression \in Repeatable
  /\ \E options \in RepeatedOptions :
       LET call == parse(repeated(expression, options), initialState, input)
       IN  /\ repOptions' = options
           /\ repHeap' = call.m
           /\ repResult' = [root |-> call.root, value |-> call.value]
  /\ pc' = "repeated"
  /\ UNCHANGED <<expression, initialState, input, heap, result, optHeap, optResult,
                 condIfFalse, condHeap, condResult, againResult,
                 evaluationOrder, reorderedResult>>
  /\ UNCHANGED buildVars
  /\ UNCHANGED dedupVars

\* the options repeated() rejects: a negative minimum, a maximum below the minimum
InvalidRepeatedOptions == {[min |-> -1], [min |-> -1, max |-> 2], [min |-> 2, max |-> 1]}

\* the children handed to sequence() and union(): none, one, two
ChildLists(e) == {<<>>, <<e>>, <<e, Lit(b, 1, "b")>>}

\* the calls of the builders made with expression
BuilderCalls(e) ==
  {[builder |-> "sequence", children |-> cs] : cs \in ChildLists(e)}
    \cup {[builder |-> "union", children |-> cs] : cs \in ChildLists(e)}
    \cup {[builder |-> "repeated", expression |-> e, options |-> o] :
            o \in RepeatedOptions \cup InvalidRepeatedOptions}

CallBuilder(call) ==
  CASE call.builder = "sequence" -> sequence(call.children)
    [] call.builder = "union" -> union(call.children)
    [] call.builder = "repeated" -> repeated(call.expression, call.options)

\* the caller calls a builder: sequence(...children), union(...children) or
\* repeated(expression, options); nothing is parsed
Build ==
  /\ pc = "parsed"
  /\ \E call \in BuilderCalls(expression) :
       /\ builderCall' = call
       /\ built' = CallBuilder(call)
  /\ pc' = "built"
  /\ UNCHANGED parseVars
  /\ UNCHANGED dedupVars

\* the caller's objects after a call: the root ExpressionResult holds the
\* caller's expression graph and the start LiteralResult the caller's state
ArgumentsAfter(h) == [expression |-> h.results[2].expression, state |-> h.lits[1].state]

\* the caller calls parse(expression, initialState, input) a second time,
\* with the objects the first call was given
ParseAgain ==
  /\ pc = "parsed"
  /\ LET args == ArgumentsAfter(heap)
         call == parse(args.expression, args.state, input)
     IN  againResult' = [root |-> call.root, value |-> call.value]
  /\ pc' = "parsedAgain"
  /\ UNCHANGED <<expression, initialState, input, heap, result, optHeap, optResult,
                 condIfFalse, condHeap, condResult, repOptions, repHeap, repResult,
                 evaluationOrder, reorderedResult>>
  /\ UNCHANGED buildVars
  /\ UNCHANGED dedupVars

\* the orders, other than that of the source, in which the branches at a
\* fan-out are evaluated
OtherOrders == {"reversed", "rotated", "swapped"}

\* the same call of parse, with the branches at every fan-out of a sequence
\* or union evaluated in another order and their results concatenated in the
\* order of the branches
ParseReordered ==
  /\ pc = "parsed"
  /\ \E order \in OtherOrders :
       LET call == parseInOrder(expression, initialState, input, order)
       IN  /\ evaluationOrder' = order
           /\ reorderedResult' = [root |-> call.root, value |-> call.value]
  /\ pc' = "reordered"
  /\ UNCHANGED <<expression, initialState, input, heap, result, optHeap, optResult,
                 condIfFalse, condHeap, condResult, repOptions, repHeap, repResult,
                 againResult>>
  /\ UNCHANGED buildVars
  /\ UNCHANGED dedupVars

Next ==
  \/ Parse \/ ParseOptional \/ ParseConditional \/ ParseRepeated
  \/ Build \/ ParseAgain \/ ParseReordered

Spec == Init /\ [][Next]_vars

\* ---------------------------------------------------------------- the merges

\* the groups of the suggestions: two objects with the key "g", a third
\* group without a priority and a group with priority 1
SuggestionGroups ==
  {[key |-> "g", ref |-> 1], [key |-> "g", ref |-> 2], [key |-> "h", ref |-> 3],
   [key |-> "k", ref |-> 4, priority |-> 1]}

\* the suggestions merged: plain strings (one a number), and the objects
\* labelled "x" with or without a priority and a group
SuggestionObjs ==
  {[label |-> "x"], [label |-> "x", priority |-> 1]}
    \cup {[label |-> "x", group |-> g] : g \in SuggestionGroups}
    \cup {[label |-> "x", priority |-> 1, group |-> g] : g \in SuggestionGroups}

MergedSuggestions ==
  {Str("y")} \cup {Str(ToString(n)) : n \in 1..MaxLabelNumber} \cup SuggestionObjs

RECURSIVE ListsUpTo(_)
\* the lists of at most n suggestions
ListsUpTo(n) ==
  IF n = 0 THEN {<<>>}
  ELSE LET shorter == ListsUpTo(n - 1)
       IN  shorter \cup {Append(l, x) : l \in {sh \in shorter : Len(sh) = n - 1},
                                       x \in MergedSuggestions}

InitDedup ==
  /\ suggestionList \in ListsUpTo(MaxSuggestions)
  /\ pc = "merge"
  /\ deduped = <<>>
  /\ permuted = <<>>
  /\ dedupedPermuted = <<>>
  /\ dedupedAgain = <<>>
  /\ expression = EMPTY_LITERAL
  /\ initialState = INITIAL_STATE
  /\ input = <<>>
  /\ heap = EmptyHeap
  /\ result = NoResult
  /\ optHeap = EmptyHeap
  /\ optResult = NoResult
  /\ condIfFalse = "none"
  /\ condHeap = EmptyHeap
  /\ condResult = NoResult
  /\ repOptions = NoOptions
  /\ repHeap = EmptyHeap
  /\ repResult = NoResult
  /\ againResult = NoResult
  /\ evaluationOrder = "forward"
  /\ reorderedResult = NoResult
  /\ builderCall = NoCall
  /\ built = NoResult

\* the caller's suggestions are merged: dedupSuggestions(suggestionList)
Dedup ==
  /\ pc = "merge"
  /\ deduped' = dedupSuggestions(suggestionList)
  /\ pc' = "merged"
  /\ UNCHANGED <<suggestionList, permuted, dedupedPermuted, dedupedAgain>>
  /\ UNCHANGED parseVars
  /\ UNCHANGED buildVars

\* the same suggestions are merged in another order
DedupPermuted ==
  /\ pc = "merged"
  /\ \E p \in Permutations(1..Len(suggestionList)) :
       LET list == [k \in 1..Len(suggestionList) |-> suggestionList[p[k]]]
       IN  /\ permuted' = list
           /\ dedupedPermuted' = dedupSuggestions(list)
  /\ pc' = "permuted"
  /\ UNCHANGED <<suggestionList, deduped, dedupedAgain>>
  /\ UNCHANGED parseVars
  /\ UNCHANGED buildVars

\* the merged list is merged again: dedupSuggestions(deduped)
DedupAgain ==
  /\ pc = "permuted"
  /\ dedupedAgain' = dedupSuggestions(deduped)
  /\ pc' = "again"
  /\ UNCHANGED <<suggestionList, deduped, permuted, dedupedPermuted>>
  /\ UNCHANGED parseVars
  /\ UNCHANGED buildVars

NextDedup == Dedup \/ DedupPermuted \/ DedupAgain

SpecDedup == InitDedup /\ [][NextDedup]_vars

\* ---------------------------------------------------------------- reading a finished call

Parsed == pc # "ready"

Returned(r) == "thrown" \notin DOMAIN r.value

\* the LiteralResults of heap h that the evaluator created (1 is the start result)
CreatedLits(h) == 2..Len(h.lits)

\* the chain of LiteralResult k: k and everything before it on its branch
RECURSIVE Chain(_, _)
Chain(h, k) == IF k = 0 THEN {} ELSE {k} \cup Chain(h, h.lits[k].prev)

\* a terminal result: a LiteralResult that no other one continues
IsTerminal(h, k) == \A j \in 1..Len(h.lits) : h.lits[j].prev # k

Terminals(h) == {k \in 1..Len(h.lits) : IsTerminal(h, k)}

GreatestMatchEnd(h, ks) ==
  CHOOSE e \in {h.lits[k].matchEnd : k \in ks} : \A k \in ks : h.lits[k].matchEnd <= e

LongestTerminals(h) ==
  {k \in Terminals(h) : h.lits[k].matchEnd = GreatestMatchEnd(h, Terminals(h))}

Labels(suggs) == {suggs[k].label : k \in 1..Len(suggs)}

\* the results of heap h that evaluate a node of the given type
ResultsOfType(h, type) ==
  {r \in 2..Len(h.results) : h.results[r].expression.type = type}

\* ---- a reference semantics of the grammars whose generators read the
\* state only: the positions a grammar can reach from a configuration
\* [pos, state], as matches (ok) and as failures of a literal (fail)

RECURSIVE StateOnly(_)
StateOnly(e) ==
  CASE e.type = "literal" -> TRUE
    [] e.type = "sequence" -> \A k \in 1..Len(e.sequence) : StateOnly(e.sequence[k])
    [] e.type = "union" -> \A k \in 1..Len(e.alternates) : StateOnly(e.alternates[k])
    [] e.type = "dynamic" ->
         CASE e.fn.kind = "byState" -> StateOnly(e.fn.ifIncluded) /\ StateOnly(e.fn.otherwise)
           [] e.fn.kind = "conditional" ->
                /\ StateOnly(e.fn.options.ifTrue)
                /\ ("ifFalse" \in DOMAIN e.fn.options /\ "type" \in DOMAIN e.fn.options.ifFalse)
                     => StateOnly(e.fn.options.ifFalse)
           [] OTHER -> FALSE

RECURSIVE Reach(_, _, _)
RECURSIVE ReachSequence(_, _, _, _)

ReachSequence(children, i, confs, inputStr) ==
  IF i > Len(children) THEN [ok |-> confs, fail |-> {}]
  ELSE LET each == {Reach(children[i], cf, inputStr) : cf \in confs}
           rest == ReachSequence(children, i + 1, UNION {r.ok : r \in each}, inputStr)
       IN  [ok |-> rest.ok, fail |-> UNION {r.fail : r \in each} \cup rest.fail]

Reach(e, conf, inputStr) ==
  CASE e.type = "literal" ->
         LET regexp == IF "fn" \in DOMAIN e.regexp THEN CallRegExpFn(e.regexp, conf.state)
                       ELSE e.regexp
             ex == Exec([regexp EXCEPT !.caret = TRUE], SliceFrom(inputStr, conf.pos))
         IN  IF ex.found
             THEN [ok |-> {[pos |-> conf.pos + Len(ex.matchingPart),
                            state |-> ApplyStateUpdater(e.stateUpdater, conf.state, ex.matchGroups)]},
                   fail |-> {}]
             ELSE [ok |-> {}, fail |-> {conf.pos}]
    [] e.type = "sequence" -> ReachSequence(e.sequence, 1, {conf}, inputStr)
    [] e.type = "union" ->
         LET each == {Reach(e.alternates[k], conf, inputStr) : k \in 1..Len(e.alternates)}
         IN  [ok |-> UNION {r.ok : r \in each}, fail |-> UNION {r.fail : r \in each}]
    [] e.type = "dynamic" -> Reach(CallFn(e.fn, conf.state, {}), conf, inputStr)

\* the greatest matchEnd any branch of the grammar achieves on the input
MaxAchievable(e, state, inputStr) ==
  LET reached == Reach(e, [pos |-> 0, state |-> state], inputStr)
      ends == {cf.pos : cf \in reached.ok} \cup reached.fail
  IN  CHOOSE x \in ends : \A y \in ends : y <= x

\* ---------------------------------------------------------------- claims

\* C1: parse returns matchingPart = input[0:m], m the greatest matchEnd
\* achieved on any branch: the greatest matchEnd of any LiteralResult the
\* call created and, for grammars whose generators read the state only, the
\* greatest position the reference semantics reaches.
C1_LongestMatchIsGlobal ==
  Parsed =>
    /\ Returned(result)
    /\ result.value.matchingPart = SliceTo(input, GreatestMatchEnd(heap, 1..Len(heap.lits)))
    /\ result.value.matchingPart \o result.value.remainder = input
    /\ StateOnly(expression) =>
         Len(result.value.matchingPart) = MaxAchievable(expression, initialState, input)

\* the longest path goes through the union alternate that consumed less
C1_Witness ==
  /\ Parsed
  /\ expression = Grammars[4]
  /\ input = <<"a", "b", "c">>
  /\ result.value.matchingPart = input
  /\ \E k \in CreatedLits(heap) : heap.lits[k].isMatch /\ heap.lits[k].matchEnd = 2
                                   /\ heap.lits[k].prev = 1


\* ---- what a literal node must produce, read from its expression and prior

\* the pattern a literal uses against the state of its prior, anchored
AnchoredPattern(h, r) ==
  LET e == h.results[r].expression
      regexp == IF "fn" \in DOMAIN e.regexp
                THEN CallRegExpFn(e.regexp, h.lits[h.results[r].prior].state)
                ELSE e.regexp
  IN  [regexp EXCEPT !.caret = TRUE]

\* input[prior.matchEnd:]
RemainingInput(h, r, inputStr) == SliceFrom(inputStr, h.lits[h.results[r].prior].matchEnd)

\* the anchored pattern matches a prefix of the remaining input
MatchesPrefix(h, r, inputStr) ==
  LET ex == Exec(AnchoredPattern(h, r), RemainingInput(h, r, inputStr))
  IN  ex.found /\ ex.index = 0

\* the anchored pattern matches nowhere in the remaining input
MatchesNothing(h, r, inputStr) ==
  ~Exec(AnchoredPattern(h, r), RemainingInput(h, r, inputStr)).found

\* the LiteralResults whose container is result r
LitsOf(h, r) == {k \in 1..Len(h.lits) : h.lits[k].container = r}

\* the literal node r yields exactly one LiteralResult, a match as the
\* claim describes it; strict: its matchEnd is greater than the prior's
LiteralMatchOutcome(h, r, inputStr, strict) ==
  LET e == h.results[r].expression
      prior == h.lits[h.results[r].prior]
      ex == Exec(AnchoredPattern(h, r), RemainingInput(h, r, inputStr))
  IN  /\ Cardinality(LitsOf(h, r)) = 1
      /\ Len(h.results[r].branchResults) = 1
      /\ \A k \in LitsOf(h, r) :
           /\ h.results[r].branchResults = <<k>>
           /\ h.lits[k].isMatch
           /\ h.lits[k].prev = h.results[r].prior
           /\ h.lits[k].matchEnd = prior.matchEnd + Len(ex.matchingPart)
           /\ strict => h.lits[k].matchEnd > prior.matchEnd
           /\ h.lits[k].suggestions = <<>>
           /\ h.lits[k].state = ApplyStateUpdater(e.stateUpdater, prior.state, ex.matchGroups)

\* C2 as stated: whenever the anchored pattern matches a prefix of the
\* remaining input, the literal yields one LiteralResult with isMatch = true,
\* matchEnd strictly greater than prior.matchEnd, by the length of the
\* matched text, no suggestions and the stateUpdater applied to prior.state.
C2_StrictIncrease ==
  Parsed =>
    \A r \in ResultsOfType(heap, "literal") :
      MatchesPrefix(heap, r, input) => LiteralMatchOutcome(heap, r, input, TRUE)

\* C2 as amended: the same, with matchEnd = prior.matchEnd + the length of
\* the matched text, which is strictly greater than prior.matchEnd exactly
\* when the matched text is not empty (a pattern may match the empty string).
C2_LiteralMatch ==
  Parsed =>
    \A r \in ResultsOfType(heap, "literal") :
      MatchesPrefix(heap, r, input) =>
        /\ LiteralMatchOutcome(heap, r, input, FALSE)
        /\ \A k \in LitsOf(heap, r) :
             (heap.lits[k].matchEnd > heap.lits[heap.lits[k].prev].matchEnd)
               <=> (Exec(AnchoredPattern(heap, r), RemainingInput(heap, r, input)).matchingPart # <<>>)

\* a literal matched a non-empty text after a non-empty prefix and changed
\* the state, and another literal matched the empty string
C2_Witness ==
  /\ Parsed
  /\ \E r \in ResultsOfType(heap, "literal") : \E k \in LitsOf(heap, r) :
       /\ MatchesPrefix(heap, r, input)
       /\ heap.lits[heap.lits[k].prev].matchEnd > 0
       /\ heap.lits[k].matchEnd > heap.lits[heap.lits[k].prev].matchEnd
       /\ heap.lits[k].state # heap.lits[heap.lits[k].prev].state
  /\ \E r \in ResultsOfType(heap, "literal") : \E k \in LitsOf(heap, r) :
       /\ MatchesPrefix(heap, r, input)
       /\ heap.lits[k].matchEnd = heap.lits[heap.lits[k].prev].matchEnd

MinOf(ks) == CHOOSE k \in ks : \A j \in ks : k <= j

\* C4: parse's suggestions are merged from the suggestions of every
\* terminal result whose matchEnd is the global maximum, and from nothing
\* else: the labels returned are exactly the labels those results carry.
C4_SuggestionsOfAllLongest ==
  Parsed =>
    /\ Returned(result)
    /\ Labels(result.value.suggestions) =
         UNION {Labels(heap.lits[k].suggestions) : k \in LongestTerminals(heap)}
    /\ \A i \in 1..Len(result.value.suggestions) :
         \E k \in LongestTerminals(heap) : \E j \in 1..Len(heap.lits[k].suggestions) :
           heap.lits[k].suggestions[j] = result.value.suggestions[i]

\* two co-longest terminal results contribute different labels, and a
\* shorter terminal result carries a label that is not returned
C4_Witness ==
  /\ Parsed
  /\ \E k1, k2 \in LongestTerminals(heap) :
       /\ Labels(heap.lits[k1].suggestions) \ Labels(heap.lits[k2].suggestions) # {}
       /\ Labels(heap.lits[k2].suggestions) \ Labels(heap.lits[k1].suggestions) # {}
  /\ \E k3 \in Terminals(heap) \ LongestTerminals(heap) :
       Labels(heap.lits[k3].suggestions) \ Labels(result.value.suggestions) # {}

\* C5: parse's state is the state of the best terminal result: among the
\* terminal results with the greatest matchEnd the first matching one, and
\* the first one only when none of them matches.
C5_StateOfBestResult ==
  Parsed =>
    /\ Returned(result)
    /\ LET longest == LongestTerminals(heap)
           matching == {k \in longest : heap.lits[k].isMatch}
       IN  result.value.state =
             heap.lits[IF matching # {} THEN MinOf(matching) ELSE MinOf(longest)].state

\* the first of the longest terminal results does not match while a later
\* one does, and a matching terminal result that consumed less has another state
C5_Witness ==
  /\ Parsed
  /\ LET longest == LongestTerminals(heap)
         matching == {k \in longest : heap.lits[k].isMatch}
     IN  /\ matching # {}
         /\ MinOf(longest) \notin matching
         /\ heap.lits[MinOf(longest)].state # heap.lits[MinOf(matching)].state
  /\ \E k \in Terminals(heap) \ LongestTerminals(heap) :
       heap.lits[k].isMatch /\ heap.lits[k].state # result.value.state


\* ---- permutations

IsPermutations(e) == e.type = "dynamic" /\ e.fn.kind = "permutations"

\* the orderings of n members
Orderings(n) ==
  {o \in [1..n -> 1..n] : \A i, j \in 1..n : i # j => o[i] # o[j]}

\* the members' texts concatenated in the order o
ConcatTexts(members, o) ==
  Flatten([i \in 1..Len(members) |-> members[o[i]].regexp.alts[1].text])

IsPrefix(p, s) == Len(p) <= Len(s) /\ SubSeq(s, 1, Len(p)) = p

\* C6: for a permutations expression with three required literal members
\* whose patterns do not overlap, and each ordering of the members' texts
\* at the start of the input: parse matches the whole concatenation and the
\* state is the initial state with the three stateUpdaters applied once
\* each, in input order.
C6_ThreeRequiredAnyOrder ==
  (Parsed /\ IsPermutations(expression) /\ Len(expression.fn.requiredMembers) = 3
     /\ Len(expression.fn.optionalMembers) = 0) =>
    \A o \in Orderings(3) :
      LET members == expression.fn.requiredMembers
          text == ConcatTexts(members, o)
      IN  IsPrefix(text, input) =>
            /\ Returned(result)
            /\ isMatch(heap, result.root)
            /\ result.value.matchingPart = text
            /\ result.value.remainder = SliceFrom(input, Len(text))
            /\ result.value.suggestions = <<>>
            /\ result.value.state =
                 initialState \o [i \in 1..3 |-> members[o[i]].stateUpdater.n]

\* the members arrive in the order second, third, first, and are matched
C6_Witness ==
  /\ Parsed /\ IsPermutations(expression) /\ Len(expression.fn.requiredMembers) = 3
  /\ LET o == [i \in 1..3 |-> IF i = 1 THEN 2 ELSE IF i = 2 THEN 3 ELSE 1]
     IN  /\ input = ConcatTexts(expression.fn.requiredMembers, o)
         /\ result.value.matchingPart = input
         /\ result.value.state =
              initialState \o [i \in 1..3 |-> expression.fn.requiredMembers[o[i]].stateUpdater.n]


\* the ids of the members of a permutations generator
MemberIdsOf(members) == {members[i].id : i \in 1..Len(members)}

AllMemberIds(fn) == MemberIdsOf(fn.requiredMembers) \cup MemberIdsOf(fn.optionalMembers)

\* the results of heap h that evaluate a permutations epoch
EpochResults(h) == {r \in 2..Len(h.results) : IsPermutations(h.results[r].expression)}

\* the evaluations of node id, started after result p, that matched on the
\* chain of LiteralResult k: the node has matched on that branch
MatchesOnChain(h, p, id, k) ==
  {r \in (p + 1)..Len(h.results) :
     /\ h.results[r].nodeId = id
     /\ h.results[r].isFinalized
     /\ \E i \in 1..Len(h.results[r].branchResults) :
          /\ h.lits[h.results[r].branchResults[i]].isMatch
          /\ h.results[r].branchResults[i] \in Chain(h, k)}

\* the first epoch of the permutations expression that epoch result r belongs
\* to: the closest epoch-1 result at or before r
FirstEpochOf(h, r) ==
  CHOOSE p \in EpochResults(h) :
    /\ p <= r
    /\ h.results[p].expression.fn.epoch = 1
    /\ \A q \in EpochResults(h) : (q <= r /\ h.results[q].expression.fn.epoch = 1) => q <= p

\* the members an epoch's generated expression offers: those handed to the
\* next epoch
CandidateIds(generated) ==
  IF generated.type = "literal" THEN {}
  ELSE LET continuation == IF generated.type = "union" THEN generated.alternates[2]
                           ELSE generated
       IN  AllMemberIds(continuation.sequence[2].fn)

\* C7: a permutations expression never matches the same member twice along
\* a branch, and an epoch generated on a branch offers no member that has
\* already matched on that branch, whether the member is a literal or a
\* composite expression.
C7_MemberMatchedAtMostOnce ==
  Parsed =>
    /\ \A p \in EpochResults(heap) :
         heap.results[p].expression.fn.epoch = 1 =>
           \A k \in 1..Len(heap.lits) :
             \A id \in AllMemberIds(heap.results[p].expression.fn) :
               Cardinality(MatchesOnChain(heap, p, id, k)) <= 1
    /\ \A g \in 1..Len(heap.gens) :
         IsPermutations(heap.results[heap.gens[g].node].expression) =>
           \A id \in AllMemberIds(heap.results[heap.gens[g].node].expression.fn) :
             MatchesOnChain(heap, FirstEpochOf(heap, heap.gens[g].node), id, heap.gens[g].prior) # {}
               => id \notin CandidateIds(heap.gens[g].generated)

\* C8: a permutations expression matches on a branch only if every required
\* member has matched on it; once all required members have matched it
\* stops as a match there, whatever optional members are left; with
\* optional members only it matches the empty string and the expression
\* that follows it in a sequence is evaluated.
C8_MatchIffRequiredMatched ==
  Parsed =>
    \A p \in EpochResults(heap) :
      heap.results[p].expression.fn.epoch = 1 =>
        LET fn == heap.results[p].expression.fn
            required == MemberIdsOf(fn.requiredMembers)
            terminals == {heap.results[p].branchResults[i] :
                            i \in 1..Len(heap.results[p].branchResults)}
            \* the LiteralResults with which a member of p finished matching
            memberEnds == {k \in 1..Len(heap.lits) :
                             /\ heap.lits[k].isMatch
                             /\ heap.results[p].prior \in Chain(heap, k)
                             /\ \E id \in AllMemberIds(fn) :
                                  \E r \in MatchesOnChain(heap, p, id, k) :
                                    \E i \in 1..Len(heap.results[r].branchResults) :
                                      heap.results[r].branchResults[i] = k}
        IN  /\ \A k \in terminals :
                 heap.lits[k].isMatch =>
                   \A id \in required : MatchesOnChain(heap, p, id, k) # {}
            /\ \A j \in memberEnds :
                 (\A id \in required : MatchesOnChain(heap, p, id, j) # {}) =>
                   \E k \in terminals :
                     /\ heap.lits[k].isMatch
                     /\ j \in Chain(heap, k)
                     /\ heap.lits[k].matchEnd = heap.lits[j].matchEnd
            /\ required = {} =>
                 \E k \in terminals :
                   /\ heap.lits[k].isMatch
                   /\ heap.lits[k].prev = heap.results[p].prior
                   /\ heap.lits[k].matchEnd = heap.lits[heap.results[p].prior].matchEnd
                   /\ heap.lits[k].state = heap.lits[heap.results[p].prior].state
                   /\ (heap.results[p].parent # 0
                       /\ heap.results[heap.results[p].parent].expression.type = "sequence"
                       /\ heap.results[heap.results[p].parent].expression.sequence[1]
                            = heap.results[p].expression) =>
                        \E r \in 2..Len(heap.results) :
                          /\ heap.results[r].parent = heap.results[p].parent
                          /\ heap.results[r].prior = k


\* the root of the optional call reads its branch results in order
OptTerminals == branchResults(optHeap, optResult.root)

Range(s) == {s[k] : k \in 1..Len(s)}

\* C9: parse(optional(E), s, I) never fails outright: it returns, its root
\* is a match and the empty branch is a matching terminal result at the
\* start of the input; its matchingPart is at least as long as that of
\* parse(E, s, I); and when E does not match, the suggestions of parse(E, s, I)
\* are all among its suggestions.
C9_OptionalNeverFails ==
  (pc = "compared" /\ Returned(result)) =>
    /\ Returned(optResult)
    /\ isMatch(optHeap, optResult.root)
    /\ \E k \in 1..Len(OptTerminals) :
         /\ optHeap.lits[OptTerminals[k]].isMatch
         /\ optHeap.lits[OptTerminals[k]].matchEnd = 0
         /\ optHeap.lits[OptTerminals[k]].prev = 1
         /\ optHeap.lits[OptTerminals[k]].state = initialState
         /\ optHeap.results[optHeap.lits[OptTerminals[k]].container].expression = EMPTY_LITERAL
    /\ Len(optResult.value.matchingPart) >= Len(result.value.matchingPart)
    /\ ~isMatch(heap, result.root) =>
         Range(result.value.suggestions) \subseteq Range(optResult.value.suggestions)

\* E alone is not a match, consumed part of the input and suggests a
\* continuation; optional(E) is a match with the same matchingPart and
\* the same suggestion
C9_Witness ==
  /\ pc = "compared"
  /\ Returned(result)
  /\ ~isMatch(heap, result.root)
  /\ Len(result.value.matchingPart) > 0
  /\ result.value.suggestions # <<>>
  /\ isMatch(optHeap, optResult.root)
  /\ optResult.value.matchingPart = result.value.matchingPart
  /\ Range(result.value.suggestions) \subseteq Range(optResult.value.suggestions)


\* the generator calls made for the dynamic result r
CallsOf(h, r) == {g \in 1..Len(h.gens) : h.gens[g].node = r}

\* the results constructed for the children of result r
ChildrenOf(h, r) == {ch \in 2..Len(h.results) : h.results[ch].parent = r}

\* what a generator that reads the state only returns for a state
ByState(fn, state) ==
  CASE fn.kind = "byState" -> IF Includes(state, fn.n) THEN fn.ifIncluded ELSE fn.otherwise
    [] fn.kind = "conditional" ->
         IF CallCondition(fn.options.condition, state) THEN fn.options.ifTrue
         ELSE IF "ifFalse" \notin DOMAIN fn.options THEN EMPTY_LITERAL
         ELSE IF "type" \in DOMAIN fn.options.ifFalse THEN fn.options.ifFalse
         ELSE IF fn.options.ifFalse.keyword = "matchEmpty" THEN EMPTY_LITERAL
         ELSE TERMINAL_LITERAL

\* the node id of the child at position i (from 1) of result s
ChildNodeId(h, s, child, i) ==
  IF "id" \in DOMAIN child THEN child.id ELSE h.results[s].nodeId \o "." \o ToString(i - 1)

\* C10: the generator of a dynamic node is invoked once for each branch
\* that reaches the node, with the state of that branch, and the expression
\* it returns is evaluated once against that same branch; nothing is
\* reused from the call made for another branch.
C10_GeneratorRunsPerBranch ==
  Parsed =>
    /\ \A r \in ResultsOfType(heap, "dynamic") :
         LET prior == heap.results[r].prior
             fn == heap.results[r].expression.fn
         IN  /\ Cardinality(CallsOf(heap, r)) = 1
             /\ \A g \in CallsOf(heap, r) :
                  /\ heap.gens[g].prior = prior
                  /\ heap.gens[g].state = heap.lits[prior].state
                  /\ fn.kind \in {"byState", "conditional"} =>
                       heap.gens[g].generated = ByState(fn, heap.lits[prior].state)
                  /\ Cardinality(ChildrenOf(heap, r)) = 1
                  /\ \A ch \in ChildrenOf(heap, r) :
                       /\ heap.results[ch].expression = heap.gens[g].generated
                       /\ heap.results[ch].prior = prior
    \* a dynamic child of a sequence is evaluated once for each matching
    \* branch of the child before it
    /\ \A s \in ResultsOfType(heap, "sequence") :
         LET seq == heap.results[s].expression.sequence
         IN  \A i \in 2..Len(seq) :
               seq[i].type = "dynamic" =>
                 \A before \in ChildrenOf(heap, s) :
                   heap.results[before].nodeId = ChildNodeId(heap, s, seq[i - 1], i - 1) =>
                     \A k \in Range(matchingBranchResults(heap, before)) :
                       Cardinality({r \in ChildrenOf(heap, s) :
                                      /\ heap.results[r].nodeId = ChildNodeId(heap, s, seq[i], i)
                                      /\ heap.results[r].prior = k}) = 1

\* two branches reach the same dynamic node with different states and are
\* given different expressions
C10_Witness ==
  /\ Parsed
  /\ \E g1, g2 \in 1..Len(heap.gens) :
       /\ heap.results[heap.gens[g1].node].nodeId = heap.results[heap.gens[g2].node].nodeId
       /\ heap.results[heap.gens[g1].node].parent = heap.results[heap.gens[g2].node].parent
       /\ heap.gens[g1].prior # heap.gens[g2].prior
       /\ heap.gens[g1].state # heap.gens[g2].state
       /\ heap.gens[g1].generated # heap.gens[g2].generated


\* ---- wasAlreadyMatched

\* the results enclosing result r: its parent and the parent's ancestors
RECURSIVE AncestorsOf(_, _)
AncestorsOf(h, r) ==
  IF h.results[r].parent = 0 THEN {}
  ELSE {h.results[r].parent} \cup AncestorsOf(h, h.results[r].parent)

\* the results whose evaluation had ended when the dynamic result d began
\* (result 1 is the start result, a match by construction)
FinishedBefore(h, d) == {r \in 1..(d - 1) : r \notin AncestorsOf(h, d)}

\* the results fully evaluated as matching on the chain of LiteralResult k
\* before the dynamic result d began: one of their matching branch results
\* is on the chain
MatchedBefore(h, d, k) ==
  {r \in FinishedBefore(h, d) :
     \E i \in 1..Len(h.results[r].branchResults) :
       /\ h.lits[h.results[r].branchResults[i]].isMatch
       /\ h.results[r].branchResults[i] \in Chain(h, k)}

\* C11: when a dynamic node is evaluated on a branch, wasAlreadyMatched(id)
\* is true for every node fully evaluated as matching earlier on the chain
\* of that branch: the matched literals and their matched composite
\* ancestors (sequence, union and dynamic nodes) alike.
C11_MatchedAncestorsReported ==
  Parsed =>
    \A g \in 1..Len(heap.gens) :
      \A r \in MatchedBefore(heap, heap.gens[g].node, heap.gens[g].prior) :
        heap.results[r].nodeId \in heap.gens[g].matched


\* C12: wasAlreadyMatched is local to the branch: every id it reports
\* belongs to a node whose evaluation had ended, as a match on the chain of
\* the branch, when the dynamic node began; so a node that matched on
\* another branch only, a node that failed, and an enclosing node still in
\* progress are not reported.
C12_MatchedIsBranchLocal ==
  Parsed =>
    \A g \in 1..Len(heap.gens) :
      LET d == heap.gens[g].node
          k == heap.gens[g].prior
      IN  /\ \A id \in heap.gens[g].matched :
               \E r \in MatchedBefore(heap, d, k) : heap.results[r].nodeId = id
          /\ \A r \in 2..(d - 1) :
               (\A q \in MatchedBefore(heap, d, k) :
                  heap.results[q].nodeId # heap.results[r].nodeId)
                 => heap.results[r].nodeId \notin heap.gens[g].matched

\* a dynamic node is evaluated on a branch while a literal that matched on
\* a sibling branch only, a literal that failed, and the enclosing sequence
\* are known, and none of them is reported; a literal that matched on the
\* branch is
C12_Witness ==
  /\ Parsed
  /\ \E g \in 1..Len(heap.gens) :
       LET d == heap.gens[g].node
           k == heap.gens[g].prior
           unreported == {r \in 2..(d - 1) : heap.results[r].nodeId \notin heap.gens[g].matched}
       IN  /\ heap.gens[g].matched # {}
           /\ \E r \in unreported :
                /\ heap.results[r].expression.type = "literal"
                /\ isMatch(heap, r)
                /\ heap.results[r].branchResults[1] \notin Chain(heap, k)
           /\ \E r \in unreported :
                /\ heap.results[r].expression.type = "literal"
                /\ r \in FinishedBefore(heap, d)
                /\ ~isMatch(heap, r)
           /\ \E r \in unreported : r \in AncestorsOf(heap, d)


\* ---- conditional

ConditionHolds == CallCondition(StateCondition, initialState)

\* in the call with the conditional first: the root sequence is result 2,
\* the conditional node result 3, evaluated against the start result
ConditionalNode == 3

\* C13: with ifFalse omitted or "matchEmpty": when the condition is false
\* the conditional matches the empty string, leaves the state alone and
\* suggests nothing, and sequence(conditional, rest) returns the ParseResult
\* of rest alone; when the condition is true the conditional evaluates
\* ifTrue and the call returns what sequence(ifTrue, rest) returns.
C13_ConditionalMatchEmpty ==
  (pc = "conditional" /\ condIfFalse \in {"omitted", "matchEmpty"}) =>
    LET node == condHeap.results[ConditionalNode]
        call == condHeap.gens[1]
    IN  /\ node.expression = conditional(ConditionalOptions(condIfFalse))
        /\ call.node = ConditionalNode
        /\ node.prior = 1
        /\ ~ConditionHolds =>
             /\ call.generated = EMPTY_LITERAL
             /\ Len(node.branchResults) = 1
             /\ condHeap.lits[node.branchResults[1]].isMatch
             /\ condHeap.lits[node.branchResults[1]].matchEnd = 0
             /\ condHeap.lits[node.branchResults[1]].state = initialState
             /\ condHeap.lits[node.branchResults[1]].suggestions = <<>>
             /\ condResult.value = result.value
        /\ ConditionHolds =>
             /\ call.generated = IfTrueExpression
             /\ condHeap.results[ConditionalNode + 1].expression = IfTrueExpression
             /\ condHeap.results[ConditionalNode + 1].parent = ConditionalNode
             /\ condHeap.results[ConditionalNode + 1].prior = 1
             /\ node.branchResults = condHeap.results[ConditionalNode + 1].branchResults
             /\ condResult.value =
                  parse(sequence(<<IfTrueExpression, expression>>), initialState, input).value

\* the condition is false, ifFalse is left out, and the expression after
\* the conditional consumes input, changes the state and gives suggestions
C13_Witness ==
  /\ pc = "conditional"
  /\ condIfFalse = "omitted"
  /\ ~ConditionHolds
  /\ Returned(condResult)
  /\ condResult.value = result.value
  /\ condResult.value.matchingPart # <<>>
  /\ condResult.value.state # initialState
  /\ condResult.value.suggestions # <<>>


\* C14: with ifFalse "notMatch", whenever the condition is false the
\* conditional does not match, whatever input remains (none included), and
\* the expression that follows it in the sequence is not evaluated.
C14_NotMatchNeverMatches ==
  (pc = "conditional" /\ condIfFalse = "notMatch" /\ ~ConditionHolds) =>
    /\ ~isMatch(condHeap, ConditionalNode)
    /\ ChildrenOf(condHeap, 2) = {ConditionalNode}
    /\ ~isMatch(condHeap, condResult.root)
    /\ condResult.value.matchingPart = <<>>
    /\ condResult.value.suggestions = <<>>


\* ---------------------------------------------------------------- repeated expressions

\* the evaluations of the repeated expression E (the caller's expression)
\* in the call parse(repeated(E, options), ...)
EvaluationsOf(h) == {r \in 2..Len(h.results) : h.results[r].expression = expression}

\* the evaluations of E that matched on the branch that ends in literal result k
MatchesOnBranch(h, k) ==
  {r \in EvaluationsOf(h) :
     \E j \in Chain(h, k) : j \in Range(branchResults(h, r)) /\ h.lits[j].isMatch}

\* the evaluations of E on the branch that ends in literal result k: the
\* ones that matched on it and the one that gave k or has k's branch as prior
EvaluationsOnBranch(h, k) ==
  {r \in EvaluationsOf(h) :
     \E j \in Chain(h, k) : j \in Range(branchResults(h, r)) \/ h.results[r].prior = j}

C16_UnboundedRepeatedTerminates ==
  (pc = "repeated" /\ "max" \notin DOMAIN repOptions) =>
    /\ Returned(repResult)
    /\ \A k \in 1..Len(repHeap.lits) :
         Cardinality(EvaluationsOnBranch(repHeap, k))
           <= Cardinality(MatchesOnBranch(repHeap, k)) + 1


\* ---------------------------------------------------------------- sequences

RECURSIVE SplitExists(_, _, _, _)
\* the input from conf.pos on starts with consecutive parts, one for each of
\* the children from the i-th on, each child matching its part where the
\* part before it ended, in the state that part left
SplitExists(children, i, conf, inputStr) ==
  \/ i > Len(children)
  \/ \E next \in Reach(children[i], conf, inputStr).ok :
       SplitExists(children, i + 1, next, inputStr)

\* the sequences evaluated in heap h whose generators read the state only
SequenceResults(h) ==
  {r \in ResultsOfType(h, "sequence") : StateOnly(h.results[r].expression)}

\* the configuration a result of heap h is evaluated from
ConfOf(h, r) ==
  [pos |-> h.lits[h.results[r].prior].matchEnd, state |-> h.lits[h.results[r].prior].state]

Outranks(s1, s2) ==
  \/ HasGroup(s1) /\ ~HasGroup(s2)
  \/ /\ HasGroup(s1) <=> HasGroup(s2)
     /\ HasGroup(s1) => s1.group.key = s2.group.key
     /\ PriorityOf(s1) > PriorityOf(s2)
  \/ /\ HasGroup(s1) /\ HasGroup(s2)
     /\ s1.group.key # s2.group.key
     /\ GroupPriorityOf(s1) > GroupPriorityOf(s2)

\* the suggestions of a list that carry the label, as objects
OccurrencesOf(list, label) ==
  {suggestionAsObj(list[k]) : k \in {j \in 1..Len(list) : suggestionAsObj(list[j]).label = label}}

LabelsOf(list) == {suggestionAsObj(list[k]).label : k \in 1..Len(list)}

\* among the suggestions of every label, one compares higher than all the others
UniqueBest(list) ==
  \A label \in LabelsOf(list) :
    \E best \in OccurrencesOf(list, label) :
      \A other \in OccurrencesOf(list, label) \ {best} :
        compareSuggestionPriority(best, other) > 0

\* C18 as stated: merging the suggestions in any other order gives the same
\* suggestions (in whatever order they are listed), and merging the merged
\* list again gives it unchanged.
C18_MergeOrderIndependent ==
  pc = "again" => (Range(dedupedPermuted) = Range(deduped) /\ dedupedAgain = deduped)

\* C18 as amended: merging the merged list again gives it unchanged; merging
\* the suggestions in any other order gives the same labels, and the same
\* suggestions when, for every label, one suggestion compares higher than
\* all the others of that label.
C18_MergeIdempotent ==
  pc = "again" =>
    /\ dedupedAgain = deduped
    /\ LabelsOf(dedupedPermuted) = LabelsOf(deduped)
    /\ Len(dedupedPermuted) = Len(deduped)
    /\ UniqueBest(suggestionList) => Range(dedupedPermuted) = Range(deduped)

\* three suggestions of one label, the best of them last, merged in
\* another order
C18_Witness ==
  /\ pc = "again"
  /\ Len(suggestionList) = 3
  /\ permuted # suggestionList
  /\ Cardinality(OccurrencesOf(suggestionList, "x")) = 3
  /\ UniqueBest(suggestionList)
  /\ deduped = <<suggestionAsObj(suggestionList[3])>>
  /\ dedupedPermuted = deduped
  /\ dedupedAgain = deduped


\* the positions of a list whose suggestion carries the label
PositionsOf(list, label) == {k \in 1..Len(list) : suggestionAsObj(list[k]).label = label}

\* the suggestion kept for a label in a merged list
KeptFor(merged, label) == merged[CHOOSE k \in 1..Len(merged) : merged[k].label = label]

\* C19: of the suggestions that share a label the one kept is one that no
\* other outranks; of two, in whichever order they come, the kept one is
\* the one that outranks the other (a group before no group; the higher
\* priority within one group or without groups; the higher group priority
\* between two groups), and the first of the two when neither outranks
\* the other.
C19_KeptIsHighestRanked ==
  pc \in {"merged", "permuted", "again"} =>
    \A label \in LabelsOf(suggestionList) :
      LET at == PositionsOf(suggestionList, label)
          kept == KeptFor(deduped, label)
      IN  /\ Cardinality(PositionsOf(deduped, label)) = 1
          /\ kept \in OccurrencesOf(suggestionList, label)
          /\ \A other \in OccurrencesOf(suggestionList, label) : ~Outranks(other, kept)
          /\ Cardinality(at) = 2 =>
               LET i == CHOOSE k \in at : \A j \in at : k <= j
                   j == CHOOSE k \in at : k # i
                   first == suggestionAsObj(suggestionList[i])
                   second == suggestionAsObj(suggestionList[j])
               IN  kept = IF Outranks(second, first) THEN second ELSE first

\* the labels of a list of suggestions in the order in which each label
\* is first encountered
FirstEncounterLabels(list) ==
  LET objs == [k \in 1..Len(list) |-> suggestionAsObj(list[k])]
      firsts == SelectSeqIdx(objs, [k \in 1..Len(objs) |->
                                      \A j \in 1..(k - 1) : objs[j].label # objs[k].label])
  IN  [k \in 1..Len(firsts) |-> firsts[k].label]

\* C20: the merged list holds every label once, in the order in which the
\* labels are first encountered; a later suggestion that replaces the kept
\* one takes its place in the list.
C20_LabelsInFirstEncounterOrder ==
  pc \in {"merged", "permuted", "again"} =>
    [k \in 1..Len(deduped) |-> deduped[k].label] = FirstEncounterLabels(suggestionList)


\* ---------------------------------------------------------------- C21

\* the calls the builders reject: no child at all for sequence() and union(),
\* min < 0 or max < min for repeated()
InvalidCall(call) ==
  IF call.builder = "repeated"
  THEN LET min == IF "min" \in DOMAIN call.options THEN call.options.min ELSE 0
       IN  \/ min < 0
           \/ "max" \in DOMAIN call.options /\ call.options.max < min
  ELSE Len(call.children) = 0

ExpressionTypes == {"literal", "sequence", "union", "dynamic"}

\* C21: sequence() and union() called with no child, and repeated() called
\* with min < 0 or with max < min, fail with an error in the builder itself,
\* where nothing has been parsed for the call, and return no expression.
C21_BuildersFailEagerly ==
  pc = "built" /\ InvalidCall(builderCall) =>
    /\ IsConfigError(built)
    /\ built.type \notin ExpressionTypes
    /\ built.message # ""

\* sequence() was called without children and threw
C21_Witness ==
  /\ pc = "built"
  /\ builderCall = [builder |-> "sequence", children |-> <<>>]
  /\ IsConfigError(built)
  /\ built.message = "Sequence expression must have at least one child"


\* ---------------------------------------------------------------- C22

\* the state the literal result k was given: the state of its prior, with the
\* stateUpdater of its literal applied when the literal matched
StateGiven(h, k, inputStr) ==
  LET r == h.lits[k].container
      prior == h.lits[h.lits[k].prev]
      ex == Exec(AnchoredPattern(h, r), RemainingInput(h, r, inputStr))
  IN  IF h.lits[k].isMatch
      THEN ApplyStateUpdater(h.results[r].expression.stateUpdater, prior.state, ex.matchGroups)
      ELSE prior.state

MatchesEmptyString(h, r, inputStr) ==
  LET ex == Exec(AnchoredPattern(h, r), RemainingInput(h, r, inputStr))
  IN  ex.found /\ ex.index = 0 /\ ex.matchingPart = <<>>

\* the literal has suggestions configured
HasSuggestions(e) == "fn" \in DOMAIN e.suggestions \/ e.suggestions.static # <<>>

\* C23: a literal whose pattern matches the empty string at the current
\* position is a match, whether input remains or not: one LiteralResult with
\* isMatch = true and matchEnd = prior.matchEnd, the state being prior.state
\* with the stateUpdater applied once, and no suggestions, also when the
\* literal has suggestions configured.
C23_EmptyMatchIsAMatch ==
  Parsed =>
    \A r \in ResultsOfType(heap, "literal") :
      MatchesEmptyString(heap, r, input) =>
        /\ Cardinality(LitsOf(heap, r)) = 1
        /\ \A k \in LitsOf(heap, r) :
             LET prior == heap.lits[heap.results[r].prior]
                 e == heap.results[r].expression
             IN  /\ heap.lits[k].isMatch
                 /\ heap.lits[k].prev = heap.results[r].prior
                 /\ heap.lits[k].matchEnd = prior.matchEnd
                 /\ heap.lits[k].suggestions = <<>>
                 /\ e.stateUpdater.kind = "noop" => heap.lits[k].state = prior.state
                 /\ e.stateUpdater.kind = "record" =>
                      heap.lits[k].state = Append(prior.state, e.stateUpdater.n)
                 /\ e.stateUpdater.kind = "group" => heap.lits[k].state = Append(prior.state, 0)

\* in one call a literal with suggestions configured matched the empty
\* string in the middle of the input, and another at its end; each recorded
\* its match once
C23_Witness ==
  /\ Parsed
  /\ \E r1, r2 \in ResultsOfType(heap, "literal") :
       /\ MatchesEmptyString(heap, r1, input) /\ MatchesEmptyString(heap, r2, input)
       /\ HasSuggestions(heap.results[r1].expression)
       /\ HasSuggestions(heap.results[r2].expression)
       /\ heap.lits[heap.results[r1].prior].matchEnd > 0
       /\ RemainingInput(heap, r1, input) # <<>>
       /\ RemainingInput(heap, r2, input) = <<>>
       /\ \A k \in LitsOf(heap, r1) \cup LitsOf(heap, r2) :
            Len(heap.lits[k].state) = Len(heap.lits[heap.lits[k].prev].state) + 1


\* ---------------------------------------------------------------- C24

\* the evaluations of the child at position i (from 1) of the sequence s
ChildrenAt(h, s, i) ==
  {ch \in ChildrenOf(h, s) :
     h.results[ch].nodeId = ChildNodeId(h, s, h.results[s].expression.sequence[i], i)}

\* the terminal results of the child at position i of s, over its evaluations
TerminalsAt(h, s, i) == UNION {Range(h.results[ch].branchResults) : ch \in ChildrenAt(h, s, i)}

MatchingOf(h, ks) == {k \in ks : h.lits[k].isMatch}

FailedOf(h, ks) == {k \in ks : ~h.lits[k].isMatch}

\* the position of the last child of s that was evaluated
LastEvaluated(h, s) ==
  CHOOSE i \in 1..Len(h.results[s].expression.sequence) :
    /\ ChildrenAt(h, s, i) # {}
    /\ \A j \in (i + 1)..Len(h.results[s].expression.sequence) : ChildrenAt(h, s, j) = {}

SequenceExtendsLiveOnly(h) ==
  /\ \A r \in 2..Len(h.results) : h.lits[h.results[r].prior].isMatch
  /\ \A k \in CreatedLits(h) : h.lits[h.lits[k].prev].isMatch
  /\ \A s \in {r \in ResultsOfType(h, "sequence") : h.results[r].nodeId # "(overflow)"} :
       LET n == Len(h.results[s].expression.sequence)
           priors(i) == {h.results[ch].prior : ch \in ChildrenAt(h, s, i)}
       IN  /\ priors(1) = {h.results[s].prior}
           /\ \A i \in 1..n : Cardinality(ChildrenAt(h, s, i)) = Cardinality(priors(i))
           /\ \A i \in 2..n : priors(i) \subseteq MatchingOf(h, TerminalsAt(h, s, i - 1))
           /\ h.results[s].isFinalized =>
                /\ \A i \in 2..n : priors(i) = MatchingOf(h, TerminalsAt(h, s, i - 1))
                /\ Range(h.results[s].branchResults)
                     = MatchingOf(h, TerminalsAt(h, s, LastEvaluated(h, s)))
                         \cup UNION {FailedOf(h, TerminalsAt(h, s, i)) : i \in 1..n}

\* C24: within a sequence the child at position i+1 is evaluated against the
\* matching terminal results of the child at position i, once against each,
\* and against nothing else; no node is evaluated against a prior that did not
\* match, so only the last link of a chain can be a failure; every failed
\* branch is a terminal result of the sequence; and once no branch is live
\* the children that remain are not evaluated.
C24_FailedBranchesAreNotExtended ==
  /\ Parsed => SequenceExtendsLiveOnly(heap)
  /\ pc = "conditional" => SequenceExtendsLiveOnly(condHeap)
  /\ pc = "repeated" => SequenceExtendsLiveOnly(repHeap)

\* in one sequence a branch failed at a child while another went on to the
\* next child, and the failed branch is a terminal result of the sequence; in
\* another sequence no branch was left after a child and the next child was
\* not evaluated
C24_Witness ==
  /\ pc = "conditional"
  /\ \E s \in ResultsOfType(heap, "sequence") : \E i \in 1..(Len(heap.results[s].expression.sequence) - 1) :
       /\ heap.results[s].isFinalized
       /\ FailedOf(heap, TerminalsAt(heap, s, i)) # {}
       /\ FailedOf(heap, TerminalsAt(heap, s, i)) \subseteq Range(heap.results[s].branchResults)
       /\ ChildrenAt(heap, s, i + 1) # {}
  /\ \E s \in ResultsOfType(condHeap, "sequence") :
       \E i \in 1..(Len(condHeap.results[s].expression.sequence) - 1) :
         /\ condHeap.results[s].isFinalized
         /\ ChildrenAt(condHeap, s, i) # {}
         /\ MatchingOf(condHeap, TerminalsAt(condHeap, s, i)) = {}
         /\ ChildrenAt(condHeap, s, i + 1) = {}


\* ---------------------------------------------------------------- C25

\* the elements of a set of numbers, in increasing order
InOrder(set) ==
  [i \in 1..Cardinality(set) |-> CHOOSE x \in set : Cardinality({y \in set : y < x}) = i - 1]

RECURSIVE LinksFrom(_, _, _)
\* what the chain that ends in k holds after the literal result p: for each
\* link the node that made it, where its match ends, whether it matched, its
\* state and its suggestions
LinksFrom(h, k, p) ==
  IF k = p \/ k = 0 THEN <<>>
  ELSE Append(LinksFrom(h, h.lits[k].prev, p),
              [node |-> h.results[h.lits[k].container].nodeId,
               matchEnd |-> h.lits[k].matchEnd,
               isMatch |-> h.lits[k].isMatch,
               state |-> h.lits[k].state,
               suggestions |-> h.lits[k].suggestions])

\* the terminal results of result r, each as the links it adds to the prior p
TerminalLinks(h, r, p) ==
  [j \in 1..Len(h.results[r].branchResults) |-> LinksFrom(h, h.results[r].branchResults[j], p)]

\* the alternate at position i of the union u, evaluated alone against the
\* prior of u
EvaluatedAlone(h, u, i, inputStr) ==
  LET alone == parseInternal(h.results[u].expression.alternates[i], h.results[u].prior,
                             u, i - 1, inputStr, h)
  IN  TerminalLinks(alone.m, alone.res, h.results[u].prior)

IsMatchOf(h, r) == \E j \in 1..Len(h.results[r].branchResults) : h.lits[h.results[r].branchResults[j]].isMatch

UnionEvaluatesAlternatesAlone(h, inputStr) ==
  \A u \in {r \in ResultsOfType(h, "union") : h.results[r].isFinalized} :
    LET alternates == h.results[u].expression.alternates
        children == InOrder(ChildrenOf(h, u))
    IN  /\ Len(children) = Len(alternates)
        /\ \A i \in 1..Len(children) :
             /\ h.results[children[i]].expression = alternates[i]
             /\ h.results[children[i]].prior = h.results[u].prior
             /\ TerminalLinks(h, children[i], h.results[u].prior) = EvaluatedAlone(h, u, i, inputStr)
        /\ h.results[u].branchResults
             = Flatten([i \in 1..Len(children) |-> h.results[children[i]].branchResults])
        /\ IsMatchOf(h, u) <=> \E i \in 1..Len(children) : IsMatchOf(h, children[i])

\* C25: every alternate of a union is evaluated against the prior of the
\* union, and its terminal results are those it produces when it is evaluated
\* alone against that prior; the terminal results of the union are those of
\* its alternates, concatenated in the order of the alternates; the union
\* matches exactly when an alternate does.
C25_AlternatesAreIndependent ==
  /\ Parsed /\ Returned(result) => UnionEvaluatesAlternatesAlone(heap, input)
  /\ pc = "compared" /\ Returned(optResult) => UnionEvaluatesAlternatesAlone(optHeap, input)

\* a union with an alternate that matched, another that matched further and
\* changed the state in another way, and one that failed
C25_Witness ==
  /\ Parsed /\ Returned(result)
  /\ \E u \in ResultsOfType(heap, "union") :
       /\ heap.results[u].isFinalized
       /\ \E i, j, l \in ChildrenOf(heap, u) :
            /\ IsMatchOf(heap, i) /\ IsMatchOf(heap, j) /\ ~IsMatchOf(heap, l)
            /\ \E ki \in Range(heap.results[i].branchResults),
                  kj \in Range(heap.results[j].branchResults) :
                 /\ heap.lits[ki].matchEnd < heap.lits[kj].matchEnd
                 /\ heap.lits[ki].state # heap.lits[kj].state


\* ---------------------------------------------------------------- C26

\* what the stateUpdater of the literal evaluated as r adds to
\* matchingExpressions when it runs once
RecordedBy(h, r, inputStr) ==
  LET stateUpdater == h.results[r].expression.stateUpdater
      ex == Exec(AnchoredPattern(h, r), RemainingInput(h, r, inputStr))
  IN  CASE stateUpdater.kind = "noop" -> <<>>
        [] stateUpdater.kind = "record" -> <<stateUpdater.n>>
        [] stateUpdater.kind = "group" ->
             IF ex.matchGroups = <<>> THEN <<>> ELSE <<Len(ex.matchGroups[1])>>

RECURSIVE RecordedAlong(_, _, _)
\* what the literals that matched along the chain ending in k add, in the
\* order of the chain
RecordedAlong(h, k, inputStr) ==
  IF k <= 1 THEN <<>>
  ELSE RecordedAlong(h, h.lits[k].prev, inputStr)
         \o (IF h.lits[k].isMatch THEN RecordedBy(h, h.lits[k].container, inputStr) ELSE <<>>)

\* C26: the state parse returns is initialState with the stateUpdaters of the
\* literals that matched along the chain of the best result applied, once
\* each, in the order of the chain; a literal that did not match, or that
\* matched on another branch only, adds nothing.
C26_StateFollowsBestChain ==
  Parsed /\ Returned(result) =>
    result.value.state
      = initialState \o RecordedAlong(heap, bestResult(heap, result.root), input)

\* the best chain holds three matches that each changed the state, and a
\* literal that matched on another branch left nothing in the returned state
C26_Witness ==
  /\ Parsed /\ Returned(result)
  /\ Len(result.value.state) >= Len(initialState) + 3
  /\ \E k \in CreatedLits(heap) :
       /\ heap.lits[k].isMatch
       /\ k \notin Chain(heap, bestResult(heap, result.root))
       /\ \E n \in Range(RecordedBy(heap, heap.lits[k].container, input)) :
            n \notin Range(result.value.state)


\* ---------------------------------------------------------------- C27

\* the number of members of a permutations epoch: those not yet matched when
\* the epoch before it was generated, all of them for the first epoch
MemberCount(fn) == Len(fn.requiredMembers) + Len(fn.optionalMembers)

\* the number of members an epoch's generated expression still offers
RemainingCount(generated) ==
  IF generated.type = "literal" THEN 0
  ELSE LET continuation == IF generated.type = "union" THEN generated.alternates[2]
                           ELSE generated
       IN  MemberCount(continuation.sequence[2].fn)

\* C27: evaluating a permutations expression over n members terminates,
\* whatever the kind of its members: on a branch at most n+1 epochs are
\* generated, each epoch after the first is left with strictly fewer members
\* than the one before, and the epoch generated when no member is left is the
\* literal that matches the empty string.
C27_PermutationsEpochsBounded ==
  Parsed =>
    /\ Returned(result)
    /\ \A g \in 1..Len(heap.gens) :
         LET r == heap.gens[g].node
             fn == heap.results[r].expression.fn
         IN  IsPermutations(heap.results[r].expression) =>
               /\ fn.epoch <= MemberCount(heap.results[FirstEpochOf(heap, r)].expression.fn) + 1
               /\ fn.epoch > 1 => RemainingCount(heap.gens[g].generated) < MemberCount(fn)
               /\ RemainingCount(heap.gens[g].generated) = 0
                    <=> heap.gens[g].generated = EMPTY_LITERAL


\* ---------------------------------------------------------------- C28

MatchEndsAreOrdered(h, inputStr) ==
  /\ Len(h.lits) >= 1 => h.lits[1].matchEnd = 0 /\ h.lits[1].prev = 0
  /\ \A k \in CreatedLits(h) :
       /\ h.lits[h.lits[k].prev].matchEnd <= h.lits[k].matchEnd
       /\ h.lits[k].matchEnd <= Len(inputStr)

\* C29: for every LiteralResult r created during a parse,
\* r.prev.matchEnd <= r.matchEnd <= length(input): along every chain matchEnd
\* starts at 0 at the start result, never decreases and never exceeds the
\* length of the input.
C29_MatchEndIsMonotone ==
  /\ MatchEndsAreOrdered(heap, input)
  /\ MatchEndsAreOrdered(optHeap, input)
  /\ MatchEndsAreOrdered(condHeap, input)
  /\ MatchEndsAreOrdered(repHeap, input)

\* a chain holds a match that consumed text, then a match of the empty
\* string, then a failure where the input is exhausted
C29_Witness ==
  /\ Parsed
  /\ Len(input) > 0
  /\ \E k \in CreatedLits(heap) :
       /\ ~heap.lits[k].isMatch
       /\ heap.lits[k].matchEnd = Len(input)
       /\ \E i, j \in Chain(heap, k) \ {1} :
            /\ heap.lits[i].isMatch /\ heap.lits[j].isMatch
            /\ heap.lits[i].matchEnd > heap.lits[heap.lits[i].prev].matchEnd
            /\ heap.lits[j].matchEnd = heap.lits[heap.lits[j].prev].matchEnd


\* ---------------------------------------------------------------- C30

\* the error of the engine when the calls nest too deep: the evaluation
\* does not complete
StackExhausted == "RangeError: Maximum call stack size exceeded"

\* the call that left heap h and returned res completed without an error:
\* every ExpressionResult was finalized, once, with at least one terminal
\* result, a literal with the one LiteralResult it created
InternallyConsistent(h, res) ==
  Len(h.results) > 0 /\ h.err # StackExhausted =>
    /\ h.err = ""
    /\ Returned(res)
    /\ \A r \in 1..Len(h.results) :
         /\ h.results[r].isFinalized
         /\ Len(h.results[r].branchResults) >= 1
         /\ Range(h.results[r].branchResults) \subseteq 1..Len(h.lits)
         /\ h.results[r].expression.type = "literal" =>
              /\ Len(h.results[r].branchResults) = 1
              /\ Range(h.results[r].branchResults) = LitsOf(h, r)
    /\ \A g \in 1..Len(h.gens) : h.gens[g].matched \subseteq {h.results[r].nodeId : r \in 1..Len(h.results)}

\* C30: for a well-formed graph and an input on which the evaluation
\* completes no internal-consistency error is raised: the result of every
\* node is finalized exactly once, with at least one terminal result and, for
\* a literal, exactly one, and nothing derived from a result is read before
\* the result is finalized, the climb of getAllMatchedNodeIds through the
\* ancestors included.
C30_NoInternalError ==
  /\ InternallyConsistent(heap, result)
  /\ InternallyConsistent(optHeap, optResult)
  /\ InternallyConsistent(condHeap, condResult)
  /\ InternallyConsistent(repHeap, repResult)

\* a call completed in which a generator asked for the matched nodes while
\* the ancestors of the literals that had matched were still being
\* evaluated, and in which a sequence ended with several terminal results
C30_Witness ==
  /\ Parsed
  /\ heap.err = ""
  /\ \E g \in 1..Len(heap.gens) :
       /\ heap.gens[g].matched # {}
       /\ \E k \in Chain(heap, heap.gens[g].prior) :
            /\ heap.lits[k].isMatch
            /\ heap.results[heap.lits[k].container].parent > 1
            /\ heap.results[heap.lits[k].container].parent \in AncestorsOf(heap, heap.gens[g].node)
  /\ \E s \in ResultsOfType(heap, "sequence") : Len(heap.results[s].branchResults) >= 2

====
